---- MODULE Spec2Model ----
(***************************************************************************)
(* The lexer (src/src/lexer.rs) and the recursive-descent parser           *)
(* (src/src/parser.rs) of the LOLCODE-markup compiler, as a state machine. *)
(*                                                                         *)
(* Strings are sequences of one-character strings.  The state is the       *)
(* CharLexer's fields (chars, pos, line, col, after_hash, prev_kw), the    *)
(* Parser's fields (look, ast, stack), the chain of grammar-rule functions *)
(* that are currently executing (frames) and what parse_lolcode has        *)
(* returned (result).  One action is one grammar-rule function, or one     *)
(* iteration of the loop of a block rule.  main (src/src/main.rs) adds its *)
(* position (main_pc), what Analyzer::check returned (checked_ast), the    *)
(* generated page (html), the file written (out_file) and what main has    *)
(* returned (exit).                                                        *)
(***************************************************************************)
EXTENDS Integers, Sequences, FiniteSets, TLC

VARIABLES chars, pos, line, col, after_hash, prev_kw, look, ast, stack, frames, result,
          main_pc, checked_ast, html, out_file, exit

vars == <<chars, pos, line, col, after_hash, prev_kw, look, ast, stack, frames, result,
          main_pc, checked_ast, html, out_file, exit>>

\* the variables of main after the parse
mainvars == <<main_pc, checked_ast, html, out_file, exit>>

(***************************************************************************)
(* Characters                                                              *)
(***************************************************************************)
UpperLetters ==
    <<"A", "B", "C", "D", "E", "F", "G", "H", "I", "J", "K", "L", "M",
      "N", "O", "P", "Q", "R", "S", "T", "U", "V", "W", "X", "Y", "Z">>

LowerLetters ==
    <<"a", "b", "c", "d", "e", "f", "g", "h", "i", "j", "k", "l", "m",
      "n", "o", "p", "q", "r", "s", "t", "u", "v", "w", "x", "y", "z">>

Digits == {"0", "1", "2", "3", "4", "5", "6", "7", "8", "9"}

Range(s) == {s[i] : i \in DOMAIN s}

WhitespaceChars == {" ", "\n", "\t"}
WordChars == Range(UpperLetters) \cup Range(LowerLetters) \cup Digits \cup {"_"}
TextPunctChars == {",", ".", "\"", ":", "?", "!", "%", "/"}

\* char::is_whitespace, on the whitespace characters the inputs use
IsWhitespace(c) == c \in WhitespaceChars

\* CharLexer::is_word_char
IsWordChar(c) == c \in WordChars

\* CharLexer::is_text_punct
IsTextPunct(c) == c \in TextPunctChars

UpperOf ==
    [c \in Range(LowerLetters) |->
        UpperLetters[CHOOSE i \in DOMAIN LowerLetters : LowerLetters[i] = c]]

\* char::to_ascii_uppercase
UpperChar(c) == IF c \in DOMAIN UpperOf THEN UpperOf[c] ELSE c

\* str::to_ascii_uppercase
ToAsciiUppercase(w) == [i \in DOMAIN w |-> UpperChar(w[i])]

\* the number of leading / trailing whitespace characters of s
LeadWs(s) ==
    CHOOSE n \in 0..Len(s) :
        /\ \A i \in 1..n : IsWhitespace(s[i])
        /\ (n = Len(s) \/ ~IsWhitespace(s[n + 1]))

TrailWs(s) ==
    CHOOSE n \in 0..Len(s) :
        /\ \A i \in 1..n : IsWhitespace(s[Len(s) + 1 - i])
        /\ (n = Len(s) \/ ~IsWhitespace(s[Len(s) - n]))

\* str::trim
Trim(s) ==
    IF LeadWs(s) = Len(s) THEN <<>>
    ELSE SubSeq(s, LeadWs(s) + 1, Len(s) - TrailWs(s))

\* str::split_whitespace().next().unwrap_or("")
FirstPiece(s) ==
    LET t == SubSeq(s, LeadWs(s) + 1, Len(s))
        n == CHOOSE k \in 0..Len(t) :
                 /\ \A i \in 1..k : ~IsWhitespace(t[i])
                 /\ (k = Len(t) \/ IsWhitespace(t[k + 1]))
    IN  SubSeq(t, 1, n)

(***************************************************************************)
(* Tokens (src/src/token.rs)                                               *)
(***************************************************************************)
Kw ==
    {"Hai", "Kthxbye", "OBTW", "TLDR", "Maek", "Gimmeh", "Head", "Title",
     "Paragraf", "OIC", "Bold", "Italics", "Newline", "Soundz", "Vidz",
     "List", "Item", "Lemme", "See", "I", "Haz", "It", "Iz", "Mkay"}

NoKw == "none"

\* the spelling CharLexer::map_kw matches for each keyword
KwSpelling ==
    [k \in Kw |->
      CASE k = "Hai" -> <<"H", "A", "I">>
        [] k = "Kthxbye" -> <<"K", "T", "H", "X", "B", "Y", "E">>
        [] k = "OBTW" -> <<"O", "B", "T", "W">>
        [] k = "TLDR" -> <<"T", "L", "D", "R">>
        [] k = "Maek" -> <<"M", "A", "E", "K">>
        [] k = "Gimmeh" -> <<"G", "I", "M", "M", "E", "H">>
        [] k = "Head" -> <<"H", "E", "A", "D">>
        [] k = "Title" -> <<"T", "I", "T", "L", "E">>
        [] k = "Paragraf" -> <<"P", "A", "R", "A", "G", "R", "A", "F">>
        [] k = "OIC" -> <<"O", "I", "C">>
        [] k = "Bold" -> <<"B", "O", "L", "D">>
        [] k = "Italics" -> <<"I", "T", "A", "L", "I", "C", "S">>
        [] k = "Newline" -> <<"N", "E", "W", "L", "I", "N", "E">>
        [] k = "Soundz" -> <<"S", "O", "U", "N", "D", "Z">>
        [] k = "Vidz" -> <<"V", "I", "D", "Z">>
        [] k = "List" -> <<"L", "I", "S", "T">>
        [] k = "Item" -> <<"I", "T", "E", "M">>
        [] k = "Lemme" -> <<"L", "E", "M", "M", "E">>
        [] k = "See" -> <<"S", "E", "E">>
        [] k = "I" -> <<"I">>
        [] k = "Haz" -> <<"H", "A", "Z">>
        [] k = "It" -> <<"I", "T">>
        [] k = "Iz" -> <<"I", "Z">>
        [] k = "Mkay" -> <<"M", "K", "A", "Y">>]

\* format!("{:?}", kw): the name of the enum variant
KwDebug ==
    [k \in Kw |->
      CASE k = "Hai" -> <<"H", "a", "i">>
        [] k = "Kthxbye" -> <<"K", "t", "h", "x", "b", "y", "e">>
        [] k = "OBTW" -> <<"O", "B", "T", "W">>
        [] k = "TLDR" -> <<"T", "L", "D", "R">>
        [] k = "Maek" -> <<"M", "a", "e", "k">>
        [] k = "Gimmeh" -> <<"G", "i", "m", "m", "e", "h">>
        [] k = "Head" -> <<"H", "e", "a", "d">>
        [] k = "Title" -> <<"T", "i", "t", "l", "e">>
        [] k = "Paragraf" -> <<"P", "a", "r", "a", "g", "r", "a", "f">>
        [] k = "OIC" -> <<"O", "I", "C">>
        [] k = "Bold" -> <<"B", "o", "l", "d">>
        [] k = "Italics" -> <<"I", "t", "a", "l", "i", "c", "s">>
        [] k = "Newline" -> <<"N", "e", "w", "l", "i", "n", "e">>
        [] k = "Soundz" -> <<"S", "o", "u", "n", "d", "z">>
        [] k = "Vidz" -> <<"V", "i", "d", "z">>
        [] k = "List" -> <<"L", "i", "s", "t">>
        [] k = "Item" -> <<"I", "t", "e", "m">>
        [] k = "Lemme" -> <<"L", "e", "m", "m", "e">>
        [] k = "See" -> <<"S", "e", "e">>
        [] k = "I" -> <<"I">>
        [] k = "Haz" -> <<"H", "a", "z">>
        [] k = "It" -> <<"I", "t">>
        [] k = "Iz" -> <<"I", "z">>
        [] k = "Mkay" -> <<"M", "k", "a", "y">>]

\* enum Token
TokHash == [type |-> "Hash", text |-> <<>>, kw |-> NoKw]
TokEof == [type |-> "Eof", text |-> <<>>, kw |-> NoKw]
TokWord(w) == [type |-> "Word", text |-> w, kw |-> NoKw]
TokText(t) == [type |-> "Text", text |-> t, kw |-> NoKw]
TokKw(k) == [type |-> "Kw", text |-> <<>>, kw |-> k]

IsKw(tok, k) == tok.type = "Kw" /\ tok.kw = k

EofLexeme == <<"<", "E", "O", "F", ">">>

\* Token::as_lexeme
AsLexeme(tok) ==
    CASE tok.type = "Hash" -> <<"#">>
      [] tok.type = "Word" -> tok.text
      [] tok.type = "Text" -> tok.text
      [] tok.type = "Kw" -> KwDebug[tok.kw]
      [] tok.type = "Eof" -> EofLexeme

(***************************************************************************)
(* The lexer (src/src/lexer.rs).  m is the record of the machine's fields. *)
(***************************************************************************)
\* CharLexer::eof
Eof(m) == m.pos >= Len(m.chars)

\* CharLexer::peek, where it is called with !eof()
Peek(m) == m.chars[m.pos + 1]

\* CharLexer::bump
Bump(m) ==
    IF Eof(m) THEN m
    ELSE IF Peek(m) = "\n"
         THEN [m EXCEPT !.line = @ + 1, !.col = 0, !.pos = @ + 1]
         ELSE [m EXCEPT !.col = @ + 1, !.pos = @ + 1]

RECURSIVE BumpN(_, _)
BumpN(m, n) == IF n = 0 THEN m ELSE BumpN(Bump(m), n - 1)

\* CharLexer::take_while, pred being membership in the character class cls:
\* the run of characters in cls, bumped over
TakeWhile(m, cls) ==
    LET n == CHOOSE k \in 0..(Len(m.chars) - m.pos) :
                 /\ \A i \in 1..k : m.chars[m.pos + i] \in cls
                 /\ (m.pos + k = Len(m.chars) \/ m.chars[m.pos + k + 1] \notin cls)
    IN  [m |-> BumpN(m, n), s |-> SubSeq(m.chars, m.pos + 1, m.pos + n)]

\* CharLexer::map_kw
MapKw(upper) ==
    IF \E k \in Kw : KwSpelling[k] = upper
    THEN CHOOSE k \in Kw : KwSpelling[k] = upper
    ELSE NoKw

\* the keywords followed by a keyword, without those of a variable definition
PrevKwExpectsKeywordNoVariable(prev) == prev \in {"Maek", "Gimmeh", "Lemme"}

\* CharLexer::prev_kw_expects_keyword
PrevKwExpectsKeyword(prev) == prev \in {"Maek", "Gimmeh", "Lemme", "I", "It"}

\* a lexer with reserved words: a keyword spelling is a keyword wherever it is
LexWordReserved(m) ==
    LET r == TakeWhile(m, WordChars)
        kw == MapKw(ToAsciiUppercase(r.s))
    IN  IF kw # NoKw
        THEN [m |-> [r.m EXCEPT !.after_hash = FALSE, !.prev_kw = kw],
              tok |-> TokKw(kw)]
        ELSE [m |-> [r.m EXCEPT !.after_hash = FALSE, !.prev_kw = NoKw],
              tok |-> TokWord(r.s)]

\* the word branch of CharLexer::next_token
LexWord(m) ==
    LET r == TakeWhile(m, WordChars)
        upper == ToAsciiUppercase(r.s)
        keyword_ok == m.after_hash \/ PrevKwExpectsKeyword(m.prev_kw)
        kw == MapKw(upper)
    IN  IF keyword_ok /\ kw # NoKw
        THEN [m |-> [r.m EXCEPT !.after_hash = FALSE, !.prev_kw = kw],
              tok |-> TokKw(kw)]
        ELSE [m |-> [r.m EXCEPT !.after_hash = FALSE, !.prev_kw = NoKw],
              tok |-> TokWord(r.s)]

\* a lexer that skips whitespace instead of handing it out as Text
NextTokenSkippingWs(m) ==
    LET w == TakeWhile(m, WhitespaceChars).m
    IN  IF Eof(w) THEN [m |-> w, tok |-> TokEof]
        ELSE IF Peek(w) = "#"
        THEN [m |-> [Bump(w) EXCEPT !.after_hash = TRUE, !.prev_kw = NoKw], tok |-> TokHash]
        ELSE IF IsWordChar(Peek(w))
        THEN LexWord(w)
        ELSE IF IsTextPunct(Peek(w))
        THEN LET r == TakeWhile(w, TextPunctChars) IN [m |-> r.m, tok |-> TokText(r.s)]
        ELSE [m |-> Bump(w), tok |-> TokText(<<Peek(w)>>)]

\* a lexer whose whitespace and punctuation end the context of a # or a keyword
NextTokenTextClears(m) ==
    IF Eof(m) THEN [m |-> m, tok |-> TokEof]
    ELSE IF Peek(m) = "#"
    THEN [m |-> [Bump(m) EXCEPT !.after_hash = TRUE, !.prev_kw = NoKw], tok |-> TokHash]
    ELSE IF IsWordChar(Peek(m))
    THEN LexWord(m)
    ELSE LET r == IF IsWhitespace(Peek(m)) THEN TakeWhile(m, WhitespaceChars)
                  ELSE IF IsTextPunct(Peek(m)) THEN TakeWhile(m, TextPunctChars)
                  ELSE [m |-> Bump(m), s |-> <<Peek(m)>>]
         IN  [m |-> [r.m EXCEPT !.after_hash = FALSE, !.prev_kw = NoKw], tok |-> TokText(r.s)]

\* CharLexer::next_token: the lexer's fields afterwards, and the token
NextToken(m) ==
    IF Eof(m) THEN [m |-> m, tok |-> TokEof]
    ELSE IF Peek(m) = "#"
    THEN [m |-> [Bump(m) EXCEPT !.after_hash = TRUE, !.prev_kw = NoKw], tok |-> TokHash]
    ELSE IF IsWhitespace(Peek(m))
    THEN LET r == TakeWhile(m, WhitespaceChars) IN [m |-> r.m, tok |-> TokText(r.s)]
    ELSE IF IsWordChar(Peek(m))
    THEN LexWord(m)
    ELSE IF IsTextPunct(Peek(m))
    THEN LET r == TakeWhile(m, TextPunctChars) IN [m |-> r.m, tok |-> TokText(r.s)]
    ELSE [m |-> Bump(m), tok |-> TokText(<<Peek(m)>>)]

(***************************************************************************)
(* The AST (src/src/ast.rs)                                                *)
(***************************************************************************)
\* Node variants that hold a string
Leaf(kind, s) == [kind |-> kind, text |-> s, kids |-> <<>>]
\* Node variants that hold children
Branch(kind, kids) == [kind |-> kind, text |-> <<>>, kids |-> kids]
\* Node::Newline
NewlineNode == [kind |-> "Newline", text |-> <<>>, kids |-> <<>>]
\* Node::VarDef { name, value }
VarDefNode(name, value) == [kind |-> "VarDef", text |-> value, kids |-> <<>>, name |-> name]
\* Node::VarUse { name }
VarUseNode(name) == [kind |-> "VarUse", text |-> <<>>, kids |-> <<>>, name |-> name]

(***************************************************************************)
(* The parser (src/src/parser.rs).  A frame is a grammar-rule function in  *)
(* progress: its name, its position pc, and its local strings acc (the     *)
(* text being accumulated) and name (a variable's name).  A step of a rule *)
(* looks at the lookahead token and either consumes it (adv, the call of   *)
(* Parser::advance the step ends with), calls another rule, returns, or    *)
(* fails; the helpers expect_kw, expect_hash, skip_ws and                  *)
(* read_text_until_hash are positions of the rule that calls them.         *)
(***************************************************************************)
Running(m) == m.result.tag = "none"

ResNone == [tag |-> "none"]
ResOk == [tag |-> "Ok"]
\* LolError::Syntax { expected, found }
Syntax(expected, found) == [tag |-> "Err", kind |-> "Syntax", expected |-> expected, found |-> found]

Top(s) == s[Len(s)]
Frame(fn) == [fn |-> fn, pc |-> "enter", acc |-> <<>>, name |-> <<>>]
Pc(m) == Top(m.frames).pc
Acc(m) == Top(m.frames).acc

\* an error path that hands over the nodes parsed so far
FailKeepingPartial(m, expected, found) ==
    [m EXCEPT !.result = Syntax(expected, found),
              !.ast = IF m.stack = <<>> THEN <<>> ELSE m.stack[1]]

\* return Err(..): the error goes up through every `?` to parse_lolcode's caller
Fail(m, expected, found) == [m EXCEPT !.result = Syntax(expected, found)]

\* the rule moves to position pc
Goto(m, pc) == [m EXCEPT !.frames[Len(m.frames)].pc = pc]
\* self.advance()?, and the rule moves to position pc
Consume(m, pc) == [m EXCEPT !.frames[Len(m.frames)].pc = pc, !.adv = TRUE]
\* a reader that drops the whitespace tokens
AccumulateWords(m) ==
    [m EXCEPT !.frames[Len(m.frames)].acc =
                  IF Trim(m.look.text) = <<>> THEN @ ELSE @ \o m.look.text,
              !.adv = TRUE]

\* s.push_str(t); self.advance()?
Accumulate(m) ==
    [m EXCEPT !.frames[Len(m.frames)].acc = @ \o m.look.text, !.adv = TRUE]
\* self.f()?, the caller going on at position pc when f returns
Call(m, pc, fn) == [m EXCEPT !.frames = Append(Goto(m, pc).frames, Frame(fn))]
\* a rule returns Ok(())
Return(m) == [m EXCEPT !.frames = SubSeq(@, 1, Len(@) - 1)]
\* self.f() as the value of the caller: f returns to the caller's caller
TailCall(m, fn) == [m EXCEPT !.frames = Append(SubSeq(@, 1, Len(@) - 1), Frame(fn))]

\* an advance that reads two tokens and keeps the second
AdvanceTwice(m) ==
    IF m.adv
    THEN LET r == NextToken(NextToken(m).m) IN [r.m EXCEPT !.look = r.tok, !.adv = FALSE]
    ELSE m

\* Parser::advance, when the step asked for it
Advance(m) ==
    IF m.adv
    THEN LET r == NextToken(m) IN [r.m EXCEPT !.look = r.tok, !.adv = FALSE]
    ELSE m

\* Parser::expect_kw, the rule going on at position pc
ExpectKw(m, kw, pc) ==
    IF IsKw(m.look, kw) THEN Consume(m, pc)
    ELSE Fail(m, kw, AsLexeme(m.look))

\* Parser::expect_hash, the rule going on at position pc
ExpectHash(m, pc) ==
    IF m.look.type = "Hash" THEN Consume(m, pc)
    ELSE Fail(m, "#", AsLexeme(m.look))

\* Parser::push_node
PushNode(m, n) ==
    IF Len(m.stack) > 0
    THEN [m EXCEPT !.stack[Len(m.stack)] = Append(@, n)]
    ELSE [m EXCEPT !.ast = Append(@, n)]

\* Parser::skip_ws, the test of its loop: a whitespace-only Text token
IsWs(tok) == tok.type = "Text" /\ Trim(tok.text) = <<>>

\* Parser::read_text_until_hash, the test of its loop
IsTextOrWord(tok) == tok.type \in {"Text", "Word"}

\* self.stack.push(vec![])
PushScope(m) == [m EXCEPT !.stack = Append(@, <<>>)]
\* self.stack.pop(), the popped accumulator being Top(m.stack)
PopScope(m) == [m EXCEPT !.stack = SubSeq(@, 1, Len(@) - 1)]

(***************************************************************************)
(* The grammar rules (impl SyntaxAnalyzer for Parser): one step of each    *)
(***************************************************************************)
\* parse_lolcode, lines 192-196: the AST is the root accumulator
\* an end of parse_lolcode that asks for the end of input after #KTHXBYE
FinishLolcodeExpectEof(m) ==
    IF NextToken(m).tok.type # "Eof" THEN Fail(m, "<EOF>", AsLexeme(NextToken(m).tok))
    ELSE LET m1 == IF Len(m.stack) > 0 THEN [m EXCEPT !.stack = SubSeq(@, 1, Len(@) - 1),
                                                      !.ast = m.stack[Len(m.stack)]]
                   ELSE m
         IN  [m1 EXCEPT !.frames = SubSeq(@, 1, Len(@) - 1), !.result = ResOk]

FinishLolcode(m) ==
    LET m1 == IF Len(m.stack) > 0 THEN [PopScope(m) EXCEPT !.ast = Top(m.stack)] ELSE m
    IN  [Return(m1) EXCEPT !.result = ResOk]

\* parse_lolcode, lines 150-159: what follows #MAEK at top level
LolcodeMaek(m) ==
    IF IsWs(m.look) THEN Consume(m, "maek")
    ELSE IF IsKw(m.look, "Head") THEN Call(m, "loop", "parse_head")
    ELSE IF IsKw(m.look, "Paragraf") THEN Call(m, "loop", "parse_paragraph")
    ELSE IF IsKw(m.look, "List") THEN Call(m, "loop", "parse_list")
    ELSE Fail(m, "HEAD/PARAGRAF/LIST", AsLexeme(m.look))

\* the top-level annotations without the arm for a HEAD that lacks its MAEK
LolcodeAnnotationNoHint(m) ==
    IF IsWs(m.look) THEN Consume(m, "hash")
    ELSE IF IsKw(m.look, "Kthxbye") THEN FinishLolcode(Consume(m, "done"))
    ELSE IF IsKw(m.look, "OBTW") THEN Call(m, "loop", "parse_comment")
    ELSE IF IsKw(m.look, "Maek") THEN Consume(m, "maek")
    ELSE IF IsKw(m.look, "Gimmeh") THEN Call(m, "loop", "parse_body")
    ELSE IF IsKw(m.look, "Lemme") THEN Call(m, "loop", "parse_variable_use")
    ELSE IF IsKw(m.look, "I") THEN Call(m, "loop", "parse_variable_define")
    ELSE Fail(m, "valid top-level annotation", AsLexeme(m.look))

\* top-level annotations that pass over a token they do not know
LolcodeAnnotationLenient(m) ==
    IF IsWs(m.look) THEN Consume(m, "hash")
    ELSE IF IsKw(m.look, "Kthxbye") THEN FinishLolcode(Consume(m, "done"))
    ELSE IF IsKw(m.look, "OBTW") THEN Call(m, "loop", "parse_comment")
    ELSE IF IsKw(m.look, "Maek") THEN Consume(m, "maek")
    ELSE IF IsKw(m.look, "Gimmeh") THEN Call(m, "loop", "parse_body")
    ELSE IF IsKw(m.look, "Lemme") THEN Call(m, "loop", "parse_variable_use")
    ELSE IF IsKw(m.look, "I") THEN Call(m, "loop", "parse_variable_define")
    ELSE IF IsKw(m.look, "Head") THEN Fail(m, "Use #MAEK HEAD ... #OIC", <<"H", "E", "A", "D">>)
    ELSE IF m.look.type = "Eof" THEN Fail(m, "valid top-level annotation", AsLexeme(m.look))
    ELSE Consume(m, "loop")

\* parse_lolcode, lines 143-177: what follows # at top level
LolcodeAnnotation(m) ==
    IF IsWs(m.look) THEN Consume(m, "hash")
    ELSE IF IsKw(m.look, "Kthxbye") THEN FinishLolcode(Consume(m, "done"))
    ELSE IF IsKw(m.look, "OBTW") THEN Call(m, "loop", "parse_comment")
    ELSE IF IsKw(m.look, "Maek") THEN Consume(m, "maek")
    ELSE IF IsKw(m.look, "Gimmeh") THEN Call(m, "loop", "parse_body")
    ELSE IF IsKw(m.look, "Lemme") THEN Call(m, "loop", "parse_variable_use")
    ELSE IF IsKw(m.look, "I") THEN Call(m, "loop", "parse_variable_define")
    ELSE IF IsKw(m.look, "Head") THEN Fail(m, "Use #MAEK HEAD ... #OIC", <<"H", "E", "A", "D">>)
    ELSE Fail(m, "valid top-level annotation", AsLexeme(m.look))

\* a top-level loop that takes the end of input for the end of the document
LolcodeLoopEofEnds(m) ==
    IF IsWs(m.look) THEN Consume(m, "loop")
    ELSE IF m.look.type = "Hash" THEN Consume(m, "hash")
    ELSE IF IsTextOrWord(m.look) THEN Call(m, "loop", "parse_text")
    ELSE IF m.look.type = "Eof" THEN FinishLolcode(m)
    ELSE m

\* parse_lolcode, lines 135-140 and 181-188: the top-level loop
LolcodeLoop(m) ==
    IF IsWs(m.look) THEN Consume(m, "loop")
    ELSE IF m.look.type = "Hash" THEN Consume(m, "hash")
    ELSE IF IsTextOrWord(m.look) THEN Call(m, "loop", "parse_text")
    ELSE IF m.look.type = "Eof" THEN Fail(m, "#KTHXBYE", EofLexeme)
    ELSE m

\* parse_lolcode
ParseLolcode(m) ==
    CASE Pc(m) = "enter" -> ExpectHash(m, "hai")
      [] Pc(m) = "hai" -> IF IsKw(m.look, "Hai") THEN PushScope(Consume(m, "loop"))
                          ELSE Fail(m, "Hai", AsLexeme(m.look))
      [] Pc(m) = "loop" -> LolcodeLoop(m)
      [] Pc(m) = "hash" -> LolcodeAnnotation(m)
      [] Pc(m) = "maek" -> LolcodeMaek(m)

\* the end of a HEAD block that forgets to pop its accumulator
FinishHeadNoPop(m) == Return(PushNode(m, Branch("Head", Top(m.stack))))

\* parse_head, lines 228-230
FinishHead(m) == Return(PushNode(PopScope(m), Branch("Head", Top(m.stack))))

\* parse_head calling parse_title the way parse_list calls parse_list_items:
\* with GIMMEH still the lookahead
HeadAnnotationNoAdvance(m) ==
    IF IsWs(m.look) THEN Consume(m, "hash")
    ELSE IF IsKw(m.look, "Gimmeh") THEN Call(m, "loop", "parse_title")
    ELSE IF IsKw(m.look, "OBTW") THEN Call(m, "loop", "parse_comment")
    ELSE IF IsKw(m.look, "OIC") THEN FinishHead(Consume(m, "done"))
    ELSE Fail(m, "GIMMEH TITLE or OBTW or OIC", AsLexeme(m.look))

\* parse_head, lines 209-218: what follows # in a HEAD block
HeadAnnotation(m) ==
    IF IsWs(m.look) THEN Consume(m, "hash")
    ELSE IF IsKw(m.look, "Gimmeh") THEN Consume(m, "gimmeh")
    ELSE IF IsKw(m.look, "OBTW") THEN Call(m, "loop", "parse_comment")
    ELSE IF IsKw(m.look, "OIC") THEN FinishHead(Consume(m, "done"))
    ELSE Fail(m, "GIMMEH TITLE or OBTW or OIC", AsLexeme(m.look))

\* a HEAD loop whose catch-all arm does nothing, as the top-level one does
HeadLoopNoAdvance(m) ==
    IF IsWs(m.look) THEN Consume(m, "loop")
    ELSE IF m.look.type = "Hash" THEN Consume(m, "hash")
    ELSE IF m.look.type = "Eof" THEN Fail(m, "#OIC", EofLexeme)
    ELSE m

\* parse_head, lines 205-207 and 220-224: the loop
HeadLoop(m) ==
    IF IsWs(m.look) THEN Consume(m, "loop")
    ELSE IF m.look.type = "Hash" THEN Consume(m, "hash")
    ELSE IF m.look.type = "Eof" THEN Fail(m, "#OIC", EofLexeme)
    ELSE Consume(m, "loop")

\* parse_head
ParseHead(m) ==
    CASE Pc(m) = "enter" -> IF IsKw(m.look, "Head") THEN PushScope(Consume(m, "loop"))
                            ELSE Fail(m, "Head", AsLexeme(m.look))
      [] Pc(m) = "loop" -> HeadLoop(m)
      [] Pc(m) = "hash" -> HeadAnnotation(m)
      [] Pc(m) = "gimmeh" -> IF IsWs(m.look) THEN Consume(m, "gimmeh")
                             ELSE Call(m, "loop", "parse_title")

\* the nodes the inline rules push
TitleNode(s) == Leaf("Title", s)
BoldNode(s) == Leaf("Bold", s)
ItalicsNode(s) == Leaf("Italics", s)
AudioNode(s) == Leaf("Audio", s)
VideoNode(s) == Leaf("Video", s)
ListItemNode(s) == Branch("ListItem", <<Leaf("Text", s)>>)

\* the node the rule of keyword kw makes of the text s
InlineNode(kw, s) ==
    CASE kw = "Title" -> TitleNode(s)
      [] kw = "Bold" -> BoldNode(s)
      [] kw = "Italics" -> ItalicsNode(s)
      [] kw = "Soundz" -> AudioNode(s)
      [] kw = "Vidz" -> VideoNode(s)
      [] kw = "Item" -> ListItemNode(s)

\* the body shared by parse_title, parse_bold, parse_italics, parse_list_items,
\* parse_audio and parse_video: keyword, text-until-hash, #MKAY, then the node
\* made of the text
InlineRule(m, kw) ==
    CASE Pc(m) = "enter" -> ExpectKw(m, kw, "text")
      [] Pc(m) = "text" -> IF IsTextOrWord(m.look) THEN Accumulate(m)
                           ELSE ExpectHash(m, "mkay")
      [] Pc(m) = "mkay" -> IF IsKw(m.look, "Mkay")
                           THEN Return(PushNode(Consume(m, "done"), InlineNode(kw, Trim(Acc(m)))))
                           ELSE Fail(m, "Mkay", AsLexeme(m.look))

\* parse_title
ParseTitle(m) == InlineRule(m, "Title")

\* a comment that any keyword after # closes
ParseCommentAnyCloser(m) ==
    CASE Pc(m) = "enter" -> ExpectKw(m, "OBTW", "text")
      [] Pc(m) = "text" -> IF m.look.type = "Hash" THEN Consume(m, "tldr")
                           ELSE IF IsTextOrWord(m.look) THEN Accumulate(m)
                           ELSE IF m.look.type = "Eof" THEN Fail(m, "#TLDR", EofLexeme)
                           ELSE Consume(m, "text")
      [] Pc(m) = "tldr" -> IF IsWs(m.look) THEN Consume(m, "tldr")
                           ELSE IF m.look.type = "Kw"
                           THEN Return(PushNode(Consume(m, "done"), Leaf("Comment", Trim(Acc(m)))))
                           ELSE Fail(m, "TLDR", AsLexeme(m.look))

\* parse_comment
ParseComment(m) ==
    CASE Pc(m) = "enter" -> ExpectKw(m, "OBTW", "text")
      [] Pc(m) = "text" -> IF m.look.type = "Hash" THEN Consume(m, "tldr")
                           ELSE IF IsTextOrWord(m.look) THEN Accumulate(m)
                           ELSE IF m.look.type = "Eof" THEN Fail(m, "#TLDR", EofLexeme)
                           ELSE Consume(m, "text")
      [] Pc(m) = "tldr" -> IF IsWs(m.look) THEN Consume(m, "tldr")
                           ELSE IF IsKw(m.look, "TLDR")
                           THEN Return(PushNode(Consume(m, "done"), Leaf("Comment", Trim(Acc(m)))))
                           ELSE Fail(m, "TLDR", AsLexeme(m.look))

\* parse_paragraph, lines 295-297
FinishParagraph(m) == Return(PushNode(PopScope(m), Branch("Paragraph", Top(m.stack))))

\* parse_paragraph, lines 272-280: what follows #GIMMEH in a PARAGRAF block
ParagraphGimmeh(m) ==
    IF IsWs(m.look) THEN Consume(m, "gimmeh")
    ELSE IF IsKw(m.look, "Bold") THEN Call(m, "loop", "parse_bold")
    ELSE IF IsKw(m.look, "Italics") THEN Call(m, "loop", "parse_italics")
    ELSE IF IsKw(m.look, "Newline") THEN Call(m, "loop", "parse_newline")
    ELSE IF IsKw(m.look, "Soundz") THEN Call(m, "loop", "parse_audio")
    ELSE IF IsKw(m.look, "Vidz") THEN Call(m, "loop", "parse_video")
    ELSE Fail(m, "BOLD/ITALICS/NEWLINE/SOUNDZ/VIDZ", AsLexeme(m.look))

\* parse_paragraph, lines 269-287: what follows # in a PARAGRAF block
ParagraphAnnotation(m) ==
    IF IsWs(m.look) THEN Consume(m, "hash")
    ELSE IF IsKw(m.look, "Gimmeh") THEN Consume(m, "gimmeh")
    ELSE IF IsKw(m.look, "Lemme") THEN Call(m, "loop", "parse_variable_use")
    ELSE IF IsKw(m.look, "I") THEN Call(m, "loop", "parse_variable_define")
    ELSE IF IsKw(m.look, "OBTW") THEN Call(m, "loop", "parse_comment")
    ELSE IF IsKw(m.look, "OIC") THEN FinishParagraph(Consume(m, "done"))
    ELSE Fail(m, "GIMMEH/LEMME/I/OBTW/OIC", AsLexeme(m.look))

\* parse_paragraph, lines 265-267 and 289-291: the loop
ParagraphLoop(m) ==
    IF IsWs(m.look) THEN Consume(m, "loop")
    ELSE IF m.look.type = "Hash" THEN Consume(m, "hash")
    ELSE IF IsTextOrWord(m.look) THEN Call(m, "loop", "parse_text")
    ELSE IF m.look.type = "Eof" THEN Fail(m, "#OIC", EofLexeme)
    ELSE Fail(m, "content in PARAGRAF", AsLexeme(m.look))

\* a paragraph that lets #MAEK LIST open a list inside it
ParseParagraphNesting(m) ==
    CASE Pc(m) = "enter" -> IF IsKw(m.look, "Paragraf") THEN PushScope(Consume(m, "loop"))
                            ELSE Fail(m, "Paragraf", AsLexeme(m.look))
      [] Pc(m) = "loop" -> ParagraphLoop(m)
      [] Pc(m) = "hash" -> IF IsKw(m.look, "Maek") THEN Consume(m, "maek")
                           ELSE ParagraphAnnotation(m)
      [] Pc(m) = "gimmeh" -> ParagraphGimmeh(m)
      [] Pc(m) = "maek" -> IF IsWs(m.look) THEN Consume(m, "maek")
                           ELSE IF IsKw(m.look, "List") THEN Call(m, "loop", "parse_list")
                           ELSE Fail(m, "LIST", AsLexeme(m.look))

\* parse_paragraph
ParseParagraph(m) ==
    CASE Pc(m) = "enter" -> IF IsKw(m.look, "Paragraf") THEN PushScope(Consume(m, "loop"))
                            ELSE Fail(m, "Paragraf", AsLexeme(m.look))
      [] Pc(m) = "loop" -> ParagraphLoop(m)
      [] Pc(m) = "hash" -> ParagraphAnnotation(m)
      [] Pc(m) = "gimmeh" -> ParagraphGimmeh(m)

\* lines 308-312 and 331-335: the variable's name, the rule going on at pc
VariableName(m, pc) ==
    IF m.look.type = "Word"
    THEN [Consume(m, pc) EXCEPT !.frames[Len(m.frames)].name = m.look.text]
    ELSE IF m.look.type = "Text"
    THEN [Consume(m, pc) EXCEPT !.frames[Len(m.frames)].name = FirstPiece(m.look.text)]
    ELSE Fail(m, "variable name", AsLexeme(m.look))

\* parse_variable_define
ParseVariableDefine(m) ==
    CASE Pc(m) = "enter" -> ExpectKw(m, "I", "haz")
      [] Pc(m) = "haz" -> ExpectKw(m, "Haz", "name")
      [] Pc(m) = "name" -> VariableName(m, "it")
      [] Pc(m) = "it" -> ExpectKw(m, "It", "iz")
      [] Pc(m) = "iz" -> ExpectKw(m, "Iz", "value")
      [] Pc(m) = "value" -> IF IsTextOrWord(m.look) THEN Accumulate(m)
                            ELSE ExpectHash(m, "mkay")
      [] Pc(m) = "mkay" -> IF IsKw(m.look, "Mkay")
                           THEN Return(PushNode(Consume(m, "done"),
                                    VarDefNode(Top(m.frames).name, Trim(Acc(m)))))
                           ELSE Fail(m, "Mkay", AsLexeme(m.look))

\* parse_variable_use
ParseVariableUse(m) ==
    CASE Pc(m) = "enter" -> ExpectKw(m, "Lemme", "see")
      [] Pc(m) = "see" -> ExpectKw(m, "See", "name")
      [] Pc(m) = "name" -> VariableName(m, "hash")
      [] Pc(m) = "hash" -> ExpectHash(m, "mkay")
      [] Pc(m) = "mkay" -> IF IsKw(m.look, "Mkay")
                           THEN Return(PushNode(Consume(m, "done"),
                                    VarUseNode(Top(m.frames).name)))
                           ELSE Fail(m, "Mkay", AsLexeme(m.look))

\* parse_body, lines 346-356: what follows #GIMMEH outside a block
BodyKind(m) ==
    IF IsWs(m.look) THEN Consume(m, "kind")
    ELSE IF IsKw(m.look, "Bold") THEN TailCall(m, "parse_bold")
    ELSE IF IsKw(m.look, "Italics") THEN TailCall(m, "parse_italics")
    ELSE IF IsKw(m.look, "Newline") THEN TailCall(m, "parse_newline")
    ELSE IF IsKw(m.look, "Soundz") THEN TailCall(m, "parse_audio")
    ELSE IF IsKw(m.look, "Vidz") THEN TailCall(m, "parse_video")
    ELSE IF IsKw(m.look, "Item") THEN TailCall(m, "parse_list_items")
    ELSE IF IsKw(m.look, "Title") THEN TailCall(m, "parse_title")
    ELSE Fail(m, "BOLD/ITALICS/NEWLINE/SOUNDZ/VIDZ/ITEM/TITLE", AsLexeme(m.look))

\* parse_body
ParseBody(m) ==
    CASE Pc(m) = "enter" -> ExpectKw(m, "Gimmeh", "kind")
      [] Pc(m) = "kind" -> BodyKind(m)

\* parse_bold
ParseBold(m) == InlineRule(m, "Bold")

\* parse_italics
ParseItalics(m) == InlineRule(m, "Italics")

\* a newline that wants its #MKAY like the other inline rules
ParseNewlineWithCloser(m) ==
    CASE Pc(m) = "enter" -> ExpectKw(m, "Newline", "hash")
      [] Pc(m) = "hash" -> ExpectHash(m, "mkay")
      [] Pc(m) = "mkay" -> IF IsKw(m.look, "Mkay")
                           THEN Return(PushNode(Consume(m, "done"), NewlineNode))
                           ELSE Fail(m, "Mkay", AsLexeme(m.look))

\* parse_newline
ParseNewline(m) ==
    IF IsKw(m.look, "Newline") THEN Return(PushNode(Consume(m, "done"), NewlineNode))
    ELSE Fail(m, "Newline", AsLexeme(m.look))

\* parse_list, lines 406-408
FinishList(m) == Return(PushNode(PopScope(m), Branch("List", Top(m.stack))))

\* parse_list, lines 393-399: what follows # in a LIST block
ListAnnotation(m) ==
    IF IsWs(m.look) THEN Consume(m, "hash")
    ELSE IF IsKw(m.look, "Gimmeh") THEN Call(m, "loop", "parse_list_items")
    ELSE IF IsKw(m.look, "OBTW") THEN Call(m, "loop", "parse_comment")
    ELSE IF IsKw(m.look, "OIC") THEN FinishList(Consume(m, "done"))
    ELSE Fail(m, "GIMMEH ITEM or OBTW or OIC", AsLexeme(m.look))

\* parse_list, lines 389-391 and 401-402: the loop
ListLoop(m) ==
    IF IsWs(m.look) THEN Consume(m, "loop")
    ELSE IF m.look.type = "Hash" THEN Consume(m, "hash")
    ELSE IF m.look.type = "Eof" THEN Fail(m, "#OIC for LIST", EofLexeme)
    ELSE Fail(m, "# in LIST", AsLexeme(m.look))

\* parse_list
ParseList(m) ==
    CASE Pc(m) = "enter" -> IF IsKw(m.look, "List") THEN PushScope(Consume(m, "loop"))
                            ELSE Fail(m, "List", AsLexeme(m.look))
      [] Pc(m) = "loop" -> ListLoop(m)
      [] Pc(m) = "hash" -> ListAnnotation(m)

\* parse_list_items
ParseListItems(m) == InlineRule(m, "Item")

\* parse_audio
ParseAudio(m) == InlineRule(m, "Soundz")

\* parse_video
ParseVideo(m) == InlineRule(m, "Vidz")

\* parse_text: the node holds the accumulated string as it is
ParseText(m) ==
    IF IsTextOrWord(m.look) THEN Accumulate(m)
    ELSE IF Trim(Acc(m)) # <<>> THEN Return(PushNode(m, Leaf("Text", Acc(m))))
    ELSE Return(m)

(***************************************************************************)
(* Parser::new and the documents the parser is run on                      *)
(***************************************************************************)
\* Parser::new, over CharLexer::new
NewParser(input) ==
    Advance([chars |-> input, pos |-> 0, line |-> 1, col |-> 0,
             after_hash |-> FALSE, prev_kw |-> NoKw, look |-> TokEof,
             ast |-> <<>>, stack |-> <<>>, frames |-> <<>>, result |-> ResNone,
             adv |-> TRUE])

\* the most #GIMMEH ITEM entries in a generated LIST block
MaxItems == 2
\* the most top-level items between #HAI and #KTHXBYE in a generated document
MaxTop == 2

RECURSIVE Concat(_)
Concat(ss) == IF ss = <<>> THEN <<>> ELSE Head(ss) \o Concat(Tail(ss))

SrcHai == <<"#", "H", "A", "I">>
SrcBye == <<"#", "K", "T", "H", "X", "B", "Y", "E">>
SrcMaekHead == <<"#", "M", "A", "E", "K", " ", "H", "E", "A", "D">>
SrcMaekParagraf == <<"#", "M", "A", "E", "K", " ", "P", "A", "R", "A", "G", "R", "A", "F">>
SrcMaekList == <<"#", "M", "A", "E", "K", " ", "L", "I", "S", "T">>
SrcOic == <<"#", "O", "I", "C">>
SrcMkay == <<"#", "M", "K", "A", "Y">>
SrcGimmehTitle == <<"#", "G", "I", "M", "M", "E", "H", " ", "T", "I", "T", "L", "E">>
SrcGimmehItem == <<"#", "G", "I", "M", "M", "E", "H", " ", "I", "T", "E", "M", " ">>
SrcParagraphScenario == <<"#", "M", "A", "E", "K", " ", "P", "A", "R", "A", "G", "R", "A", "F", " ", "h", "e", "l", "l", "o", " ", "#", "G", "I", "M", "M", "E", "H", " ", "B", "O", "L", "D", " ", "w", "o", "r", "l", "d", "#", "M", "K", "A", "Y", " ", "#", "O", "I", "C">>
SrcVarDef == <<"#", "I", " ", "H", "A", "Z", " ", "x", " ", "I", "T", " ", "I", "Z", " ", "v", " ", "#", "M", "K", "A", "Y">>
SrcVarUse == <<"#", "L", "E", "M", "M", "E", " ", "S", "E", "E", " ", "x", " ", "#", "M", "K", "A", "Y">>
SrcComment == <<"#", "O", "B", "T", "W", " ", "I", " ", "H", "A", "Z", " ", "n", "o", "t", "e", " ", "#", "T", "L", "D", "R">>
SrcProse == <<" ", "l", "i", "s", "t", " ", "O", "i", "c", ".">>
\* every keyword spelling, in one letter case or another, as prose
KeywordProse == <<"h", "a", "i", " ", "K", "t", "h", "x", "b", "y", "e", " ", "O", "B", "T", "W", " ", "t", "l", "d", "r", " ", "M", "a", "e", "k", " ", "G", "I", "M", "M", "E", "H", " ", "h", "e", "a", "d", " ", "T", "i", "t", "l", "e", " ", "P", "A", "R", "A", "G", "R", "A", "F", " ", "o", "i", "c", " ", "B", "o", "l", "d", " ", "I", "T", "A", "L", "I", "C", "S", " ", "n", "e", "w", "l", "i", "n", "e", " ", "S", "o", "u", "n", "d", "z", " ", "V", "I", "D", "Z", " ", "l", "i", "s", "t", " ", "I", "t", "e", "m", " ", "L", "E", "M", "M", "E", " ", "s", "e", "e", " ", "I", " ", "H", "A", "Z", " ", "i", "t", " ", "I", "z", " ", "M", "K", "A", "Y">>
SrcKeywordProse == SrcMaekParagraf \o <<" ">> \o KeywordProse \o SrcOic
SrcBareHead == <<"#", "H", "E", "A", "D">>

\* the text of the i-th list item: "one", "two", then "nx", "nxx", ...
ItemText(i) ==
    IF i = 1 THEN <<"o", "n", "e">>
    ELSE IF i = 2 THEN <<"t", "w", "o">>
    ELSE <<"n">> \o [j \in 1..(i - 2) |-> "x"]

\* #GIMMEH ITEM t_1#MKAY ... #GIMMEH ITEM t_n#MKAY
RECURSIVE SrcItems(_)
SrcItems(n) ==
    IF n = 0 THEN <<>>
    ELSE SrcItems(n - 1) \o SrcGimmehItem \o ItemText(n) \o SrcMkay

\* #MAEK LIST (#GIMMEH ITEM t_i#MKAY)^n #OIC
SrcList(n) == SrcMaekList \o SrcItems(n) \o SrcOic

\* the title texts t of #GIMMEH TITLE t#MKAY
Titles ==
    {<<" ", "M", "y", " ", "P", "a", "g", "e">>,
     <<" ", " ", "a", " ", " ", "b", " ">>,
     <<>>,
     <<" ", "x", ".", "y", "\n", "z">>,
     <<".", "h", "a", "i", " ", "i", "t">>}

\* #MAEK HEAD#GIMMEH TITLE t#MKAY#OIC
SrcHeadTitle(t) == SrcMaekHead \o SrcGimmehTitle \o t \o SrcMkay \o SrcOic

\* well-formed and malformed top-level items
\* further items: a bare HEAD, comments, other characters, free text in a HEAD
EdgeItems ==
    {<<"#", " ", "h", "e", "a", "d">>,
     <<"#", "H", "e", "a", "d">>,
     <<"#", "O", "B", "T", "W", " ", "a", " ", "#", "O", "I", "C", " ", "b", " ", "#", "T", "L", "D", "R">>,
     <<"#", "O", "B", "T", "W", " ", "M", "a", "e", "k", ",", " ", "i", "t", "'", "s", "?", "\n", " ", "#", " ", " ", "t", "l", "d", "r">>,
     <<" ", "a", "-", "b", " ", "@", " ", "(", "c", ")">>,
     <<"#", "M", "A", "E", "K", " ", "H", "E", "A", "D", "#", "G", "I", "M", "M", "E", "H", " ", "T", "I", "T", "L", "E", " ", "a", "#", "b", "#", "M", "K", "A", "Y", "#", "O", "I", "C">>,
     <<"#", "M", "A", "E", "K", " ", "H", "E", "A", "D", "#", "O", "B", "T", "W", " ", "c", " ", "#", "T", "L", "D", "R", " ", "j", "u", "n", "k", ",", " ", "x", " ", "#", "G", "I", "M", "M", "E", "H", " ", "T", "I", "T", "L", "E", " ", "t", " ", "#", "M", "K", "A", "Y", " ", "#", "O", "I", "C">>}

\* the first items of the generated documents
TopItems ==
    EdgeItems \cup {SrcHeadTitle(t) : t \in Titles}
    \cup {SrcList(n) : n \in 0..MaxItems}
    \cup {SrcParagraphScenario, SrcVarDef, SrcVarUse, SrcComment, SrcProse, SrcBareHead,
          SrcKeywordProse,
          SrcMaekHead \o SrcOic,
          SrcMaekParagraf \o <<" ">> \o SrcVarDef \o SrcOic,
          SrcMaekParagraf \o <<" ">> \o SrcVarUse \o SrcOic,
          SrcMaekParagraf \o SrcComment \o SrcOic,
          SrcMaekHead \o SrcComment \o SrcOic,
          SrcMaekList \o SrcComment \o SrcOic,
          SrcGimmehItem \o ItemText(1) \o SrcMkay,
          SrcGimmehTitle \o <<" ", "t">> \o SrcMkay,
          <<"#", "M", "A", "E", "K", " ", "P", "A", "R", "A", "G", "R", "A", "F", " ", "b", "o", "l", "d", " ", "H", "A", "I", "#", "O", "I", "C">>,
          <<"#", "M", "A", "E", "K", " ", "P", "A", "R", "A", "G", "R", "A", "F", " ", "i", "t", " ", "#", " ", "O", "I", "C">>,
          <<"#", "M", "A", "E", "K", " ", "P", "A", "R", "A", "G", "R", "A", "F", "#", "G", "I", "M", "M", "E", "H", " ", "I", "T", "A", "L", "I", "C", "S", " ", "i", "#", "M", "K", "A", "Y", "#", "G", "I", "M", "M", "E", "H", " ", "N", "E", "W", "L", "I", "N", "E", "#", "G", "I", "M", "M", "E", "H", " ", "S", "O", "U", "N", "D", "Z", " ", "a", ".", "b", "/", "c", "#", "M", "K", "A", "Y", "#", "G", "I", "M", "M", "E", "H", " ", "V", "I", "D", "Z", " ", "v", "#", "M", "K", "A", "Y", "#", "O", "I", "C">>,
          <<"#", "G", "I", "M", "M", "E", "H", " ", "B", "O", "L", "D", " ", "b", "#", "M", "K", "A", "Y">>,
          <<"#", "G", "I", "M", "M", "E", "H", " ", "I", "T", "A", "L", "I", "C", "S", " ", "i", " ", "j", "#", "M", "K", "A", "Y">>,
          <<"#", "G", "I", "M", "M", "E", "H", " ", "S", "O", "U", "N", "D", "Z", " ", "h", "t", "t", "p", ":", "/", "/", "a", ".", "b", "/", "c", "#", "M", "K", "A", "Y">>,
          <<"#", "G", "I", "M", "M", "E", "H", " ", "V", "I", "D", "Z", " ", "v", "#", "M", "K", "A", "Y">>,
          <<"#", "G", "I", "M", "M", "E", "H", " ", "N", "E", "W", "L", "I", "N", "E", " ", "i", "t">>,
          <<"#", "M", "A", "E", "K", " ", "P", "A", "R", "A", "G", "R", "A", "F", "#", "M", "A", "E", "K", " ", "L", "I", "S", "T", "#", "O", "I", "C", "#", "O", "I", "C">>,
          <<"#", "M", "A", "E", "K", " ", "P", "A", "R", "A", "G", "R", "A", "F", "#", "G", "I", "M", "M", "E", "H", " ", "I", "T", "E", "M", " ", "x", "#", "M", "K", "A", "Y", "#", "O", "I", "C">>,
          <<"#", "M", "A", "E", "K", " ", "H", "E", "A", "D", " ", "j", "u", "n", "k", " ", "#", "O", "I", "C">>,
          <<"#", "M", "A", "E", "K", " ", "L", "I", "S", "T", " ", "j", "u", "n", "k", "#", "O", "I", "C">>,
          <<"#", "M", "A", "E", "K", " ", "B", "O", "L", "D">>,
          <<"#", "x">>,
          <<"#", "#">>,
          <<"#", " ", "M", "A", "E", "K", " ", "H", "E", "A", "D", " ", "#", " ", "O", "I", "C">>,
          <<"#", "M", "A", "E", "K", " ", " ", "H", "E", "A", "D", "\n", "#", "G", "I", "M", "M", "E", "H", " ", " ", "T", "I", "T", "L", "E", " ", "t", "#", "M", "K", "A", "Y", "\n", "#", "O", "I", "C", "\n">>,
          <<"#", "M", "A", "E", "K", ".", "H", "E", "A", "D", "#", "O", "I", "C">>,
          <<"#", "G", "I", "M", "M", "E", "H", " ", "B", "O", "L", "D", " ", "b", "#", " ", "M", "K", "A", "Y">>,
          <<"#", "g", "i", "m", "m", "e", "h", " ", "b", "o", "l", "d", " ", "b", "#", "m", "k", "a", "y">>}

\* the items that may follow the first item of a generated document
MoreItems == {SrcParagraphScenario, SrcList(1), SrcProse, SrcComment}

\* the sequences of at most n top-level items
RECURSIVE ItemSeqs(_)
ItemSeqs(n) ==
    IF n = 0 THEN {<<>>}
    ELSE IF n = 1 THEN {<<>>} \cup {<<i>> : i \in TopItems}
    ELSE ItemSeqs(n - 1) \cup {Append(s, i) : s \in ItemSeqs(n - 1) \ {<<>>}, i \in MoreItems}

\* #HAI, the items, #KTHXBYE
Document(items) == SrcHai \o Concat(items) \o SrcBye

\* what may follow #KTHXBYE
SrcTrailer == <<" ", "j", "u", "n", "k", " ", "#">>

\* what may follow #KTHXBYE
Trailers ==
    {SrcTrailer,
     <<"#", "M", "A", "E", "K", " ", "B", "O", "L", "D", " ", "#", "O", "I", "C", " ", "x", " ", "#", "K", "T", "H", "X", "B", "Y", "E">>,
     <<"\n", "#", "G", "I", "M", "M", "E", "H", " ", "B", "O", "L", "D", " ", "b">>}

\* spellings of the opening #HAI
Openers == {<<"#", "h", "a", "i">>, <<"#", " ", "H", "A", "I">>, <<" ", "#", "H", "A", "I">>, <<"H", "A", "I">>}

\* items that make a document on their own
LoneItems ==
    {<<"#", ",", " ", "m", "a", "e", "k", " ", ".", " ", "h", "e", "a", "d">>,
     <<"#", "O", "I", "C">>,
     <<"#", " ", "m", "k", "a", "y", " ", "x">>}

\* every prefix of d, d included
Prefixes(d) == {SubSeq(d, 1, k) : k \in 0..Len(d)}

\* the documents of at most MaxTop items; those of at most one item also cut
\* off at every character, followed by a trailer, or opened differently
Inputs ==
    {Document(s) : s \in ItemSeqs(MaxTop)}
    \cup UNION {Prefixes(Document(s)) : s \in ItemSeqs(1)}
    \cup {Document(s) \o tr : s \in {<<>>, <<SrcProse>>}, tr \in Trailers}
    \cup {o \o SrcBye : o \in Openers}
    \cup {Document(<<e>>) : e \in LoneItems}

(***************************************************************************)
(* The state machine                                                       *)
(***************************************************************************)
\* the machine's fields as a record
Cur ==
    [chars |-> chars, pos |-> pos, line |-> line, col |-> col,
     after_hash |-> after_hash, prev_kw |-> prev_kw, look |-> look,
     ast |-> ast, stack |-> stack, frames |-> frames, result |-> result,
     adv |-> FALSE]

Set(m) ==
    /\ chars' = m.chars
    /\ pos' = m.pos
    /\ line' = m.line
    /\ col' = m.col
    /\ after_hash' = m.after_hash
    /\ prev_kw' = m.prev_kw
    /\ look' = m.look
    /\ ast' = m.ast
    /\ stack' = m.stack
    /\ frames' = m.frames
    /\ result' = m.result
    /\ UNCHANGED mainvars

\* nothing yet: no checked AST, no page, no file, no return value
Nothing == [tag |-> "none"]

\* a value that exists
Some(v) == [tag |-> "some", val |-> v]

\* main before parser.parse_lolcode() has returned
MainInit ==
    /\ main_pc = "parse"
    /\ checked_ast = Nothing
    /\ html = Nothing
    /\ out_file = Nothing
    /\ exit = Nothing

\* the state after Parser::new(input)
Init ==
    \E input \in Inputs :
        LET m == NewParser(input)
        IN  /\ chars = m.chars
            /\ pos = m.pos
            /\ line = m.line
            /\ col = m.col
            /\ after_hash = m.after_hash
            /\ prev_kw = m.prev_kw
            /\ look = m.look
            /\ ast = m.ast
            /\ stack = m.stack
            /\ frames = m.frames
            /\ result = m.result
            /\ MainInit

\* the grammar rule that is executing
Active(fn) == result = ResNone /\ frames # <<>> /\ Top(frames).fn = fn

\* main calls parse_lolcode on the new parser
CallParseLolcode ==
    /\ result = ResNone
    /\ frames = <<>>
    /\ frames' = <<Frame("parse_lolcode")>>
    /\ UNCHANGED <<chars, pos, line, col, after_hash, prev_kw, look, ast, stack, result>>
    /\ UNCHANGED mainvars

\* one step of parse_lolcode
StepParseLolcode == Active("parse_lolcode") /\ Set(Advance(ParseLolcode(Cur)))
\* one step of parse_head
StepParseHead == Active("parse_head") /\ Set(Advance(ParseHead(Cur)))
\* one step of parse_title
StepParseTitle == Active("parse_title") /\ Set(Advance(ParseTitle(Cur)))
\* one step of parse_comment
StepParseComment == Active("parse_comment") /\ Set(Advance(ParseComment(Cur)))
\* one step of parse_paragraph
StepParseParagraph == Active("parse_paragraph") /\ Set(Advance(ParseParagraph(Cur)))
\* one step of parse_variable_define
StepParseVariableDefine == Active("parse_variable_define") /\ Set(Advance(ParseVariableDefine(Cur)))
\* one step of parse_variable_use
StepParseVariableUse == Active("parse_variable_use") /\ Set(Advance(ParseVariableUse(Cur)))
\* one step of parse_body
StepParseBody == Active("parse_body") /\ Set(Advance(ParseBody(Cur)))
\* one step of parse_bold
StepParseBold == Active("parse_bold") /\ Set(Advance(ParseBold(Cur)))
\* one step of parse_italics
StepParseItalics == Active("parse_italics") /\ Set(Advance(ParseItalics(Cur)))
\* one step of parse_newline
StepParseNewline == Active("parse_newline") /\ Set(Advance(ParseNewline(Cur)))
\* one step of parse_list
StepParseList == Active("parse_list") /\ Set(Advance(ParseList(Cur)))
\* one step of parse_list_items
StepParseListItems == Active("parse_list_items") /\ Set(Advance(ParseListItems(Cur)))
\* one step of parse_audio
StepParseAudio == Active("parse_audio") /\ Set(Advance(ParseAudio(Cur)))
\* one step of parse_video
StepParseVideo == Active("parse_video") /\ Set(Advance(ParseVideo(Cur)))
\* one step of parse_text
StepParseText == Active("parse_text") /\ Set(Advance(ParseText(Cur)))

Next ==
    \/ CallParseLolcode
    \/ StepParseLolcode
    \/ StepParseHead
    \/ StepParseTitle
    \/ StepParseComment
    \/ StepParseParagraph
    \/ StepParseVariableDefine
    \/ StepParseVariableUse
    \/ StepParseBody
    \/ StepParseBold
    \/ StepParseItalics
    \/ StepParseNewline
    \/ StepParseList
    \/ StepParseListItems
    \/ StepParseAudio
    \/ StepParseVideo
    \/ StepParseText

Spec == Init /\ [][Next]_vars

(***************************************************************************)
(* The lexer on its own: CharLexer::new(input), then next_token again and  *)
(* again; look is the token the last call returned                         *)
(***************************************************************************)
\* no call of next_token yet
NoToken == [type |-> "None", text |-> <<>>, kw |-> NoKw]

\* CharLexer::new
LexInit ==
    \E input \in Inputs :
        /\ chars = input
        /\ pos = 0
        /\ line = 1
        /\ col = 0
        /\ after_hash = FALSE
        /\ prev_kw = NoKw
        /\ look = NoToken
        /\ ast = <<>>
        /\ stack = <<>>
        /\ frames = <<>>
        /\ result = ResNone
        /\ MainInit

\* a call of CharLexer::next_token
LexNextToken ==
    LET r == NextToken(Cur)
    IN  /\ pos' = r.m.pos
        /\ line' = r.m.line
        /\ col' = r.m.col
        /\ after_hash' = r.m.after_hash
        /\ prev_kw' = r.m.prev_kw
        /\ look' = r.tok
        /\ UNCHANGED <<chars, ast, stack, frames, result>>
        /\ UNCHANGED mainvars

LexNext == LexNextToken

LexSpec == LexInit /\ [][LexNext]_vars

(***************************************************************************)
(* The pipeline of main (src/src/main.rs): parse, semantic check, HTML     *)
(* generation, file write                                                  *)
(***************************************************************************)
\* Analyzer::check
Check(a) == [tag |-> "Ok", val |-> a]

\* HtmlGen::indent
Indent(n) == [i \in 1..(4 * n) |-> " "]

\* HtmlGen::emit_nodes_inline
RECURSIVE EmitNodesInline(_)
EmitNodesInline(nodes) ==
    IF nodes = <<>> THEN <<>>
    ELSE LET node == Head(nodes)
             one == CASE node.kind = "Bold" -> <<"<", "b", ">", " ">> \o Trim(node.text) \o <<" ", "<", "/", "b", ">">>
                      [] node.kind = "Italics" -> <<"<", "i", ">", " ">> \o Trim(node.text) \o <<" ", "<", "/", "i", ">">>
                      [] node.kind = "Newline" -> <<"<", "b", "r", ">", "\n">>
                      [] node.kind = "Text" -> node.text
                      [] node.kind = "Audio" -> <<"<", "a", "u", "d", "i", "o", " ", "c", "o", "n", "t", "r", "o", "l", "s", ">", "<", "s", "o", "u", "r", "c", "e", " ", "s", "r", "c", "=", "\"">> \o Trim(node.text) \o <<"\"", ">", "<", "/", "a", "u", "d", "i", "o", ">">>
                      [] node.kind = "Video" -> <<"<", "i", "f", "r", "a", "m", "e", " ", "s", "r", "c", "=", "\"">> \o Trim(node.text) \o <<"\"", "/", ">">>
                      [] node.kind \in {"ListItem", "Paragraph", "Html", "List", "Head", "Body"}
                             -> EmitNodesInline(node.kids)
                      [] OTHER -> <<>>
         IN  one \o EmitNodesInline(Tail(nodes))

\* HtmlGen::emit_nodes
RECURSIVE EmitNodes(_, _)
EmitNodes(nodes, level) ==
    IF nodes = <<>> THEN <<>>
    ELSE LET node == Head(nodes)
             one == CASE node.kind = "Html" -> EmitNodes(node.kids, level)
                      [] node.kind = "Comment" ->
                             Indent(level) \o <<"<", "!", "-", "-", " ">> \o Trim(node.text) \o <<" ", "-", "-", ">", "\n">>
                      [] node.kind = "Head" ->
                             Indent(level) \o <<"<", "h", "e", "a", "d", ">", "\n">> \o EmitNodes(node.kids, level + 1)
                             \o Indent(level) \o <<"<", "/", "h", "e", "a", "d", ">", "\n">>
                      [] node.kind = "Title" ->
                             Indent(level) \o <<"<", "t", "i", "t", "l", "e", ">", " ">> \o Trim(node.text) \o <<" ", "<", "/", "t", "i", "t", "l", "e", ">", "\n">>
                      [] node.kind = "Paragraph" ->
                             Indent(level) \o <<"<", "p", ">", " ">> \o EmitNodesInline(node.kids) \o <<"<", "/", "p", ">", "\n">>
                      [] node.kind = "Bold" -> <<"<", "b", ">", " ">> \o Trim(node.text) \o <<" ", "<", "/", "b", ">">>
                      [] node.kind = "Italics" -> <<"<", "i", ">", " ">> \o Trim(node.text) \o <<" ", "<", "/", "i", ">">>
                      [] node.kind = "Newline" -> <<"<", "b", "r", ">", "\n">>
                      [] node.kind = "List" ->
                             Indent(level) \o <<"<", "u", "l", ">", "\n">> \o EmitNodes(node.kids, level + 1)
                             \o Indent(level) \o <<"<", "/", "u", "l", ">", "\n">>
                      [] node.kind = "ListItem" ->
                             Indent(level) \o <<"<", "l", "i", ">", " ">> \o EmitNodesInline(node.kids) \o <<"<", "/", "l", "i", ">", "\n">>
                      [] node.kind = "Audio" ->
                             Indent(level) \o <<"<", "a", "u", "d", "i", "o", " ", "c", "o", "n", "t", "r", "o", "l", "s", ">", "\n">> \o Indent(level + 1) \o <<"<", "s", "o", "u", "r", "c", "e", " ", "s", "r", "c", "=", "\"">>
                             \o Trim(node.text) \o <<"\"", ">", "\n">> \o Indent(level) \o <<"<", "/", "a", "u", "d", "i", "o", ">", "\n">>
                      [] node.kind = "Video" ->
                             Indent(level) \o <<"<", "i", "f", "r", "a", "m", "e", " ", "s", "r", "c", "=", "\"">> \o Trim(node.text) \o <<"\"", "/", ">", "\n">>
                      [] node.kind = "Text" -> node.text
                      [] OTHER -> <<>>
         IN  one \o EmitNodes(Tail(nodes), level)

\* HtmlGen::generate
Generate(a) == <<"<", "h", "t", "m", "l", ">", "\n">> \o EmitNodes(a, 1) \o <<"<", "/", "h", "t", "m", "l", ">", "\n">>

\* a main that drops the error of parse_lolcode and goes on
MainParseIgnored ==
    /\ main_pc = "parse"
    /\ result.tag = "Err"
    /\ main_pc' = "generate"
    /\ checked_ast' = Some(ast)
    /\ UNCHANGED <<chars, pos, line, col, after_hash, prev_kw, look, ast, stack, frames, result>>
    /\ UNCHANGED <<html, out_file, exit>>

\* parse_lolcode has returned Err: the ? makes main return it
MainParseFails ==
    /\ main_pc = "parse"
    /\ result.tag = "Err"
    /\ main_pc' = "returned"
    /\ exit' = result
    /\ UNCHANGED <<chars, pos, line, col, after_hash, prev_kw, look, ast, stack, frames, result>>
    /\ UNCHANGED <<checked_ast, html, out_file>>

\* parse_lolcode has returned Ok: Analyzer::new(&parser.ast).check()?
AnalyzerCheck ==
    /\ main_pc = "parse"
    /\ result = ResOk
    /\ IF Check(ast).tag = "Ok"
       THEN /\ checked_ast' = Some(Check(ast).val)
            /\ main_pc' = "generate"
            /\ exit' = exit
       ELSE /\ checked_ast' = checked_ast
            /\ main_pc' = "returned"
            /\ exit' = Check(ast)
    /\ UNCHANGED <<chars, pos, line, col, after_hash, prev_kw, look, ast, stack, frames, result>>
    /\ UNCHANGED <<html, out_file>>

\* html_gen.generate(&checked_ast)
HtmlGenerate ==
    /\ main_pc = "generate"
    /\ html' = Some(Generate(checked_ast.val))
    /\ main_pc' = "write"
    /\ UNCHANGED <<chars, pos, line, col, after_hash, prev_kw, look, ast, stack, frames, result>>
    /\ UNCHANGED <<checked_ast, out_file, exit>>

\* fs::write(&out_path, html)
WriteHtml ==
    /\ main_pc = "write"
    /\ out_file' = Some(html.val)
    /\ main_pc' = "finish"
    /\ UNCHANGED <<chars, pos, line, col, after_hash, prev_kw, look, ast, stack, frames, result>>
    /\ UNCHANGED <<checked_ast, html, exit>>

\* the message, the browser and Ok(())
MainReturnsOk ==
    /\ main_pc = "finish"
    /\ exit' = ResOk
    /\ main_pc' = "returned"
    /\ UNCHANGED <<chars, pos, line, col, after_hash, prev_kw, look, ast, stack, frames, result>>
    /\ UNCHANGED <<checked_ast, html, out_file>>

MainNext ==
    \/ CallParseLolcode
    \/ StepParseLolcode
    \/ StepParseHead
    \/ StepParseTitle
    \/ StepParseComment
    \/ StepParseParagraph
    \/ StepParseVariableDefine
    \/ StepParseVariableUse
    \/ StepParseBody
    \/ StepParseBold
    \/ StepParseItalics
    \/ StepParseNewline
    \/ StepParseList
    \/ StepParseListItems
    \/ StepParseAudio
    \/ StepParseVideo
    \/ StepParseText
    \/ MainParseFails
    \/ AnalyzerCheck
    \/ HtmlGenerate
    \/ WriteHtml
    \/ MainReturnsOk

MainSpec == Init /\ [][MainNext]_vars

(***************************************************************************)
(* A whole run of parse_lolcode, as a function of the parser                *)
(***************************************************************************)
\* the step the rule on top of the call chain takes
StepOf(m) ==
    LET fn == IF m.frames = <<>> THEN "main" ELSE Top(m.frames).fn
    IN  Advance(CASE fn = "main" -> [m EXCEPT !.frames = <<Frame("parse_lolcode")>>]
                  [] fn = "parse_lolcode" -> ParseLolcode(m)
                  [] fn = "parse_head" -> ParseHead(m)
                  [] fn = "parse_title" -> ParseTitle(m)
                  [] fn = "parse_comment" -> ParseComment(m)
                  [] fn = "parse_paragraph" -> ParseParagraph(m)
                  [] fn = "parse_variable_define" -> ParseVariableDefine(m)
                  [] fn = "parse_variable_use" -> ParseVariableUse(m)
                  [] fn = "parse_body" -> ParseBody(m)
                  [] fn = "parse_bold" -> ParseBold(m)
                  [] fn = "parse_italics" -> ParseItalics(m)
                  [] fn = "parse_newline" -> ParseNewline(m)
                  [] fn = "parse_list" -> ParseList(m)
                  [] fn = "parse_list_items" -> ParseListItems(m)
                  [] fn = "parse_audio" -> ParseAudio(m)
                  [] fn = "parse_video" -> ParseVideo(m)
                  [] fn = "parse_text" -> ParseText(m))

\* Parser::new(input) followed by parse_lolcode(), up to its return (or to a
\* step that changes nothing, from which the run never returns)
RECURSIVE Run(_)
Run(m) ==
    IF ~Running(m) THEN m
    ELSE LET n == StepOf(m) IN IF n = m THEN m ELSE Run(n)

(***************************************************************************)
(* The claims                                                              *)
(***************************************************************************)
\* parse_lolcode has returned
Done == result # ResNone

\* C1: for every n >= 0 the document #HAI#MAEK LIST (#GIMMEH ITEM t_i#MKAY)^n
\* #OIC#KTHXBYE is accepted, and its AST is one List node whose children are
\* ListItem([Text(t_1)]), ..., ListItem([Text(t_n)]) in source order.
C1_ListDocumentParses ==
    \A n \in 0..MaxItems :
        (chars = Document(<<SrcList(n)>>) /\ Done)
            => /\ result = ResOk
               /\ ast = <<Branch("List", [i \in 1..n |-> ListItemNode(ItemText(i))])>>

\* C2: #HAI#MAEK PARAGRAF hello #GIMMEH BOLD world#MKAY #OIC#KTHXBYE is accepted
\* and its AST is [Paragraph([Text("hello"), Bold("world")])].
C2_ParagraphScenario ==
    (chars = Document(<<SrcParagraphScenario>>) /\ Done)
        => /\ result = ResOk
           /\ ast = <<Branch("Paragraph", <<Leaf("Text", <<"h", "e", "l", "l", "o">>),
                                             Leaf("Bold", <<"w", "o", "r", "l", "d">>)>>)>>

\* C3: #HAI#MAEK HEAD#GIMMEH TITLE My Page#MKAY#OIC#KTHXBYE is accepted with the
\* AST [Head([Title("My Page")])], and a HEAD block holding #GIMMEH TITLE t#MKAY
\* yields Head([Title(trim(t))]), the whitespace inside t preserved.
C3_HeadTitle ==
    /\ (chars = Document(<<SrcHeadTitle(<<" ", "M", "y", " ", "P", "a", "g", "e">>)>>) /\ Done)
           => /\ result = ResOk
              /\ ast = <<Branch("Head", <<Leaf("Title", <<"M", "y", " ", "P", "a", "g", "e">>)>>)>>
    /\ (chars = Document(<<SrcHeadTitle(<<" ", " ", "a", " ", " ", "b", " ">>)>>) /\ Done)
           => ast = <<Branch("Head", <<Leaf("Title", <<"a", " ", " ", "b">>)>>)>>
    /\ \A t \in Titles :
           (chars = Document(<<SrcHeadTitle(t)>>) /\ Done)
               => /\ result = ResOk
                  /\ ast = <<Branch("Head", <<Leaf("Title", Trim(t))>>)>>

\* C3 happens: the scenario document has been parsed to [Head([Title("My Page")])]
C3_Witness ==
    /\ chars = Document(<<SrcHeadTitle(<<" ", "M", "y", " ", "P", "a", "g", "e">>)>>)
    /\ result = ResOk
    /\ ast = <<Branch("Head", <<Leaf("Title", <<"M", "y", " ", "P", "a", "g", "e">>)>>)>>

\* C4: #I HAZ x IT IZ v #MKAY, at top level or inside a PARAGRAF block, is
\* accepted and appends VarDef{name: "x", value: "v"} to the enclosing scope.
C4_VariableDefineParses ==
    /\ (chars = Document(<<SrcVarDef>>) /\ Done)
           => /\ result = ResOk
              /\ ast = <<VarDefNode(<<"x">>, <<"v">>)>>
    /\ (chars = Document(<<SrcMaekParagraf \o <<" ">> \o SrcVarDef \o SrcOic>>) /\ Done)
           => /\ result = ResOk
              /\ ast = <<Branch("Paragraph", <<VarDefNode(<<"x">>, <<"v">>)>>)>>

\* C5: #LEMME SEE x #MKAY, at top level or inside a PARAGRAF block, is accepted
\* and appends VarUse{name: "x"} to the enclosing scope.
C5_VariableUseParses ==
    /\ (chars = Document(<<SrcVarUse>>) /\ Done)
           => /\ result = ResOk
              /\ ast = <<VarUseNode(<<"x">>)>>
    /\ (chars = Document(<<SrcMaekParagraf \o <<" ">> \o SrcVarUse \o SrcOic>>) /\ Done)
           => /\ result = ResOk
              /\ ast = <<Branch("Paragraph", <<VarUseNode(<<"x">>)>>)>>

\* the children of node n may be children of a node of its kind
LegalChildren(n) ==
    \A j \in DOMAIN n.kids :
        /\ n.kids[j].kind = "ListItem" => n.kind = "List"
        /\ n.kids[j].kind = "Title" => n.kind = "Head"

\* C6: in every AST a successful parse returns, a ListItem is a direct child of
\* a List and a Title is a direct child of a Head: neither is at the document
\* root or inside a Paragraph.
C6_LegalNesting ==
    result = ResOk
        => \A i \in DOMAIN ast :
               /\ ast[i].kind \notin {"ListItem", "Title"}
               /\ LegalChildren(ast[i])
               /\ \A j \in DOMAIN ast[i].kids : LegalChildren(ast[i].kids[j])

\* s with one space inserted after its first k characters
InsertWs(s, k) == SubSeq(s, 1, k) \o <<" ">> \o SubSeq(s, k + 1, Len(s))

\* whether the parse succeeded, and parser.ast
Outcome(m) == [ok |-> m.result = ResOk, ast |-> m.ast]

\* C7: a space inserted before the document's first character, or between a
\* `#` and the keyword that follows it, changes neither whether parse_lolcode
\* succeeds nor the AST it leaves in parser.ast.
C7_WhitespaceInsignificant ==
    (frames = <<>> /\ result = ResNone)
        => \A k \in {0} \cup {j \in 1..Len(chars) : chars[j] = "#"} :
               Outcome(Run(NewParser(InsertWs(chars, k)))) = Outcome(Run(Cur))

\* the words the lexer may turn into keywords
IsKeywordSpelling(w) ==
    /\ w # <<>>
    /\ \A i \in DOMAIN w : w[i] \in WordChars
    /\ \E k \in Kw : KwSpelling[k] = ToAsciiUppercase(w)

\* C8: a word lexed when after_hash is false and prev_kw is none of MAEK, GIMMEH,
\* LEMME, I, IT never comes out as a Kw token: a keyword spelling, in any letter
\* case, comes out as the Word token of its characters; and a paragraph whose
\* prose is made of every keyword spelling parses to one Text node holding it.
C8_KeywordAsProse ==
    /\ [][(pos' # pos /\ ~after_hash /\ prev_kw \notin {"Maek", "Gimmeh", "Lemme", "I", "It"})
              => LET run == SubSeq(chars, pos + 1, pos')
                 IN  /\ look'.type # "Kw"
                     /\ IsKeywordSpelling(run) => look' = TokWord(run)]_vars
    /\ []((chars = Document(<<SrcKeywordProse>>) /\ Done)
              => /\ result = ResOk
                 /\ Len(ast) = 1
                 /\ ast[1].kind = "Paragraph"
                 /\ Len(ast[1].kids) = 1
                 /\ ast[1].kids[1].kind = "Text"
                 /\ Trim(ast[1].kids[1].text) = KeywordProse)

\* C8 happens: the paragraph of keyword spellings has been parsed to a Text node
C8_Witness ==
    /\ chars = Document(<<SrcKeywordProse>>)
    /\ result = ResOk
    /\ ast[1].kids[1].kind = "Text"
    /\ Trim(ast[1].kids[1].text) = KeywordProse

\* each construct opened and not closed, with the expected fields that name
\* its closer
Unclosed ==
    {[src |-> s, closer |-> {"#OIC", "#OIC for LIST"}] :
        s \in {SrcMaekHead, SrcMaekParagraf \o <<" ", "h", "e", "l", "l", "o", " ">>, SrcMaekList}}
    \cup {[src |-> s, closer |-> {"#", "Mkay"}] :
        s \in {<<"#", "G", "I", "M", "M", "E", "H", " ", "B", "O", "L", "D", " ", "b">>,
               <<"#", "G", "I", "M", "M", "E", "H", " ", "I", "T", "A", "L", "I", "C", "S", " ", "i", " ", "j">>,
               <<"#", "G", "I", "M", "M", "E", "H", " ", "S", "O", "U", "N", "D", "Z", " ", "h", "t", "t", "p", ":", "/", "/", "a", ".", "b", "/", "c">>,
               <<"#", "G", "I", "M", "M", "E", "H", " ", "V", "I", "D", "Z", " ", "v">>,
               <<"#", "G", "I", "M", "M", "E", "H", " ", "I", "T", "E", "M", " ", "o", "n", "e">>,
               <<"#", "M", "A", "E", "K", " ", "H", "E", "A", "D", "#", "G", "I", "M", "M", "E", "H", " ", "T", "I", "T", "L", "E", " ", "M", "y", " ", "P", "a", "g", "e">>,
               <<"#", "M", "A", "E", "K", " ", "L", "I", "S", "T", "#", "G", "I", "M", "M", "E", "H", " ", "I", "T", "E", "M", " ", "o", "n", "e">>,
               <<"#", "I", " ", "H", "A", "Z", " ", "x", " ", "I", "T", " ", "I", "Z", " ", "v", " ">>,
               <<"#", "L", "E", "M", "M", "E", " ", "S", "E", "E", " ", "x", " ">>}}
    \cup {[src |-> <<"#", "O", "B", "T", "W", " ", "I", " ", "H", "A", "Z", " ", "n", "o", "t", "e", " ">>, closer |-> {"#TLDR"}]}

\* C9: an input that opens a HEAD, PARAGRAF or LIST block, an inline BOLD,
\* ITALICS, TITLE, SOUNDZ, VIDZ or ITEM, a variable definition, a variable use
\* or an OBTW comment and ends before the closer makes parse_lolcode return
\* Err(Syntax) whose expected field names the closer and whose found field is
\* "<EOF>".
C9_MissingCloser ==
    \A u \in Unclosed :
        (chars = SrcHai \o u.src /\ Done)
            => /\ result.tag = "Err"
               /\ result.found = EofLexeme
               /\ result.expected \in u.closer

\* the top-level loop of parse_lolcode is looking at the end of input
AtTopLevelEof == Active("parse_lolcode") /\ Top(frames).pc = "loop" /\ look.type = "Eof"

\* C10: when the top-level loop of parse_lolcode, entered after #HAI, reaches the
\* end of input, parse_lolcode returns Err(Syntax{expected: "#KTHXBYE", found:
\* "<EOF>"}); so it does on #HAI#MAEK HEAD#OIC and on #HAI followed by other
\* complete items.
C10_EofBeforeKthxbye ==
    /\ [][AtTopLevelEof => result' = Syntax("#KTHXBYE", EofLexeme)]_vars
    /\ [](\A d \in {<<>>, SrcMaekHead \o SrcOic, SrcList(0), SrcParagraphScenario,
                    SrcComment, SrcProse, SrcKeywordProse} :
              (chars = SrcHai \o d /\ Done) => result = Syntax("#KTHXBYE", EofLexeme))

\* C10 happens: #HAI#MAEK HEAD#OIC has been refused for its missing #KTHXBYE
C10_Witness ==
    /\ chars = SrcHai \o SrcMaekHead \o SrcOic
    /\ result = Syntax("#KTHXBYE", EofLexeme)
    /\ look.type = "Eof"

\* the hint error of a HEAD without MAEK
HeadHint == Syntax("Use #MAEK HEAD ... #OIC", <<"H", "E", "A", "D">>)

\* C11: at top level, a # followed, after optional whitespace, by the keyword
\* HEAD (in any letter case) makes parse_lolcode return Syntax{expected: "Use
\* #MAEK HEAD ... #OIC", found: "HEAD"}, not the error whose expected field is
\* "valid top-level annotation".
C11_BareHeadHint ==
    /\ [][(Active("parse_lolcode") /\ Top(frames).pc = "hash" /\ IsKw(look, "Head"))
              => result' = HeadHint]_vars
    /\ [](\A h \in {SrcBareHead, <<"#", " ", "h", "e", "a", "d">>, <<"#", "H", "e", "a", "d">>} :
              (chars = Document(<<h>>) /\ Done) => result = HeadHint)

\* C11 happens: the document whose only item is "# head" has been refused with
\* the hint
C11_Witness ==
    /\ chars = Document(<<<<"#", " ", "h", "e", "a", "d">>>>)
    /\ result = HeadHint
    /\ IsKw(look, "Head")

\* the tokens not yet consumed: the lookahead, unless it is Eof, and at most
\* one for each character the lexer has not read
Remaining(m) == (Len(m.chars) - m.pos) + (IF m.look.type = "Eof" THEN 0 ELSE 1)

\* the step after m consumes a token or is the last one
Progresses(m) == ~Running(StepOf(m)) \/ Remaining(StepOf(m)) < Remaining(m)

\* the catch-all arm of the top-level loop: a lookahead that is no Hash, Text,
\* Word or Eof
AtCatchAll == Active("parse_lolcode") /\ Top(frames).pc = "loop" /\ look.type = "Kw"

\* C12: parse_lolcode returns on every input: until it has returned, the next
\* step changes the state, puts no token back, and consumes a token or is
\* followed by a step that does or by the return; each step taken is that
\* next step; the catch-all arm of the top-level loop is never reached; and a
\* block that is never closed ends in a Syntax error whose found field is
\* "<EOF>".
C12_Termination ==
    /\ [](Done \/ /\ StepOf(Cur) # Cur
                  /\ Remaining(StepOf(Cur)) <= Remaining(Cur)
                  /\ Progresses(Cur) \/ Progresses(StepOf(Cur)))
    /\ [][<<pos', look', frames', stack', result'>>
              = <<StepOf(Cur).pos, StepOf(Cur).look, StepOf(Cur).frames,
                  StepOf(Cur).stack, StepOf(Cur).result>>]_vars
    /\ []~AtCatchAll
    /\ [](\A b \in {SrcMaekHead \o <<" ", "j", "u", "n", "k", " ">>,
                    SrcMaekParagraf \o <<" ", "h", "e", "l", "l", "o", " ">>,
                    SrcMaekList} :
              (chars = SrcHai \o b /\ Done)
                  => (result.tag = "Err" /\ result.found = EofLexeme))

\* C12 happens: a HEAD block that is never closed has run into the end of input
C12_Witness ==
    /\ chars = SrcHai \o SrcMaekHead \o <<" ", "j", "u", "n", "k", " ">>
    /\ result = Syntax("#OIC", EofLexeme)
    /\ Len(frames) = 2

\* C13: the step in which parse_lolcode returns Err consumes no token and
\* leaves the scopes as they are; parser.ast is the empty sequence until
\* parse_lolcode returns Ok, and changes only in the step that returns Ok after
\* #KTHXBYE.
C13_NoPartialAst ==
    /\ [](result # ResOk => ast = <<>>)
    /\ [][result'.tag = "Err"
              => (pos' = pos /\ look' = look /\ stack' = stack /\ frames' = frames)]_vars
    /\ [][ast' # ast => (result' = ResOk /\ IsKw(look, "Kthxbye"))]_vars

\* C13 happens: parse_lolcode has returned Err after nodes were parsed, and
\* parser.ast is empty
C13_Witness ==
    /\ result.tag = "Err"
    /\ stack # <<>>
    /\ stack[1] # <<>>
    /\ ast = <<>>

\* the characters the last call of next_token went over
Lexed == SubSeq(chars, pos + 1, pos')

\* C14: when next_token goes over a run of word characters, the run is maximal;
\* if after_hash was true or prev_kw was one of MAEK, GIMMEH, LEMME, I, IT, and
\* the run in upper case is the spelling of a keyword k, the token is Kw(k),
\* prev_kw becomes k and after_hash false; otherwise the token is Word(run),
\* the run as it is written, after_hash becomes false and prev_kw none.
C14_KeywordLicensing ==
    [][(pos' > pos /\ chars[pos + 1] \in WordChars)
           => /\ \A i \in DOMAIN Lexed : Lexed[i] \in WordChars
              /\ pos' = Len(chars) \/ chars[pos' + 1] \notin WordChars
              /\ after_hash' = FALSE
              /\ IF /\ after_hash \/ prev_kw \in {"Maek", "Gimmeh", "Lemme", "I", "It"}
                    /\ \E k \in Kw : KwSpelling[k] = ToAsciiUppercase(Lexed)
                 THEN /\ look'.type = "Kw"
                      /\ KwSpelling[look'.kw] = ToAsciiUppercase(Lexed)
                      /\ prev_kw' = look'.kw
                 ELSE /\ look' = TokWord(Lexed)
                      /\ prev_kw' = NoKw]_vars

\* C14 happens: HAZ has been lexed as a keyword because it follows the keyword I
C14_Witness ==
    /\ look = TokKw("Haz")
    /\ prev_kw = "Haz"
    /\ ~after_hash
    /\ SubSeq(chars, pos - 4, pos) = <<"I", " ", "H", "A", "Z">>

\* C15: a call of next_token before the end of the input returns a Hash, Word,
\* Kw or Text token made of the characters from the cursor on, one at least,
\* and moves the cursor past them; a call at the end of the input returns Eof
\* and leaves pos, line, col, after_hash and prev_kw as they are.
C15_LexerTotal ==
    /\ [][pos < Len(chars)
              => /\ pos' > pos
                 /\ pos' <= Len(chars)
                 /\ CASE look'.type = "Hash" -> Lexed = <<"#">>
                      [] look'.type = "Word" -> look'.text = Lexed
                      [] look'.type = "Text" -> look'.text = Lexed
                      [] look'.type = "Kw" -> KwSpelling[look'.kw] = ToAsciiUppercase(Lexed)
                      [] OTHER -> FALSE]_vars
    /\ [](pos = Len(chars) => NextToken(Cur) = [m |-> Cur, tok |-> TokEof])
    /\ [](pos <= Len(chars))

\* C15 happens: the lexer has gone over a whole document, a character that is
\* neither word, whitespace nor punctuation included, and has returned Eof
C15_Witness ==
    /\ look = TokEof
    /\ pos = Len(chars)
    /\ \E i \in DOMAIN chars : chars[i] = "@"
    /\ frames = <<>>
    /\ line = 1

\* C16: free text between #MAEK HEAD and #OIC makes parse_lolcode return a
\* Syntax error, and the end of input before #OIC makes it return
\* Syntax{expected: "#OIC", found: "<EOF>"}.
C16_HeadContent ==
    /\ \A h \in {<<"#", "M", "A", "E", "K", " ", "H", "E", "A", "D", " ", "j", "u", "n", "k", " ", "#", "O", "I", "C">>,
                 <<"#", "M", "A", "E", "K", " ", "H", "E", "A", "D", "#", "O", "B", "T", "W", " ", "c", " ", "#", "T", "L", "D", "R", " ", "j", "u", "n", "k", ",", " ", "x", " ", "#", "G", "I", "M", "M", "E", "H", " ", "T", "I", "T", "L", "E", " ", "t", " ", "#", "M", "K", "A", "Y", " ", "#", "O", "I", "C">>} :
           (chars = Document(<<h>>) /\ Done) => result.tag = "Err"
    /\ (chars = SrcHai \o SrcMaekHead /\ Done) => result = Syntax("#OIC", EofLexeme)

\* s is not empty and neither begins nor ends with whitespace
IsTrimmed(s) == s # <<>> /\ s[1] \notin WhitespaceChars /\ s[Len(s)] \notin WhitespaceChars

\* C17: in the AST of a successful parse, no Text node at top level or in a
\* Paragraph is empty, begins with whitespace or ends with whitespace.
C17_FreeTextTrimmed ==
    result = ResOk
        => \A i \in DOMAIN ast :
               /\ ast[i].kind = "Text" => IsTrimmed(ast[i].text)
               /\ ast[i].kind = "Paragraph"
                      => \A j \in DOMAIN ast[i].kids :
                             ast[i].kids[j].kind = "Text" => IsTrimmed(ast[i].kids[j].text)

\* the rules that call read_text_until_hash right after their keyword
TextRules ==
    {"parse_title", "parse_bold", "parse_italics", "parse_list_items", "parse_audio",
     "parse_video"}

\* the number of characters the lookahead was lexed from
LookLen ==
    CASE look.type = "Hash" -> 1
      [] look.type = "Kw" -> Len(KwSpelling[look.kw])
      [] look.type = "Eof" -> 0
      [] OTHER -> Len(look.text)

\* read_text_until_hash is running: a rule of TextRules is at its text
Reading ==
    result = ResNone /\ frames # <<>> /\ Top(frames).fn \in TextRules /\ Top(frames).pc = "text"

\* the string of an inline node
NodeText(n) == IF n.kind = "ListItem" THEN n.kids[1].text ELSE n.text

\* C18: while read_text_until_hash runs, the text gathered is the source from
\* the end of the rule's keyword to the lookahead, character for character; a
\* Text or Word lookahead is consumed and appended, and a Hash, Kw or Eof
\* lookahead ends the read unconsumed (an error that follows names it as
\* found); the rule's node holds the gathered text with the whitespace at
\* both ends removed, so that a URL comes back as it was written.
C18_TextUntilHash ==
    /\ [](Reading
              => LET end == pos - LookLen
                     start == end - Len(Top(frames).acc)
                 IN  /\ Top(frames).acc = SubSeq(chars, start + 1, end)
                     /\ start >= 1
                     /\ chars[start] \in WordChars
                     /\ look.type \in {"Text", "Word"} => look.text = SubSeq(chars, end + 1, pos))
    /\ [][Reading
              => IF look.type \in {"Text", "Word"}
                 THEN /\ Top(frames').acc = Top(frames).acc \o look.text
                      /\ Top(frames').pc = "text"
                      /\ pos' > pos \/ look'.type = "Eof"
                 ELSE /\ look.type \in {"Hash", "Kw", "Eof"}
                      /\ Top(frames').acc = Top(frames).acc
                      /\ \/ look.type = "Hash" /\ Top(frames').pc = "mkay"
                         \/ result' = Syntax("#", AsLexeme(look)) /\ pos' = pos]_vars
    /\ [][(frames # <<>> /\ Top(frames).fn \in TextRules /\ Len(frames') < Len(frames))
              => LET scope == Top(stack')
                 IN  NodeText(scope[Len(scope)]) = Trim(Top(frames).acc)]_vars
    /\ []((chars = Document(<<<<"#", "G", "I", "M", "M", "E", "H", " ", "S", "O", "U", "N", "D", "Z", " ", "h", "t", "t", "p", ":", "/", "/", "a", ".", "b", "/", "c", "#", "M", "K", "A", "Y">>>>) /\ Done)
              => (result = ResOk /\ ast = <<Leaf("Audio", <<"h", "t", "t", "p", ":", "/", "/", "a", ".", "b", "/", "c">>)>>))
    /\ []((chars = Document(<<<<"#", "G", "I", "M", "M", "E", "H", " ", "I", "T", "A", "L", "I", "C", "S", " ", "i", " ", "j", "#", "M", "K", "A", "Y">>>>) /\ Done)
              => (result = ResOk /\ ast = <<Leaf("Italics", <<"i", " ", "j">>)>>))

\* C18 happens: the title "  a  b " has been read up to the # of #MKAY
C18_Witness ==
    /\ Reading
    /\ Top(frames).fn = "parse_title"
    /\ Top(frames).acc = <<" ", " ", "a", " ", " ", "b", " ">>
    /\ look.type = "Hash"

\* parse_comment is gathering the comment's text
InComment ==
    result = ResNone /\ frames # <<>> /\ Top(frames).fn = "parse_comment"
    /\ Top(frames).pc = "text"

\* C19: after #OBTW every token up to the next # is text, a keyword spelling
\* included, and the text gathered is the source as it is written; at #TLDR,
\* whitespace allowed between # and TLDR, the rule appends one node,
\* Comment(the text trimmed), to the innermost scope; a # followed by something
\* else is a Syntax error; the end of input before #TLDR is Syntax{expected:
\* "#TLDR", found: "<EOF>"}.
C19_Comment ==
    /\ [](InComment
              => /\ look.type # "Kw"
                 /\ LET end == pos - LookLen
                    IN  Top(frames).acc = SubSeq(chars, end - Len(Top(frames).acc) + 1, end))
    /\ [][(frames # <<>> /\ Top(frames).fn = "parse_comment" /\ Len(frames') < Len(frames))
              => /\ IsKw(look, "TLDR")
                 /\ stack' = [stack EXCEPT ![Len(stack)] =
                                  Append(@, Leaf("Comment", Trim(Top(frames).acc)))]]_vars
    /\ [][(frames # <<>> /\ Top(frames).fn = "parse_comment" /\ Top(frames).pc = "tldr"
           /\ ~IsWs(look) /\ ~IsKw(look, "TLDR"))
              => result' = Syntax("TLDR", AsLexeme(look))]_vars
    /\ []((chars = Document(<<SrcComment>>) /\ Done)
              => (result = ResOk /\ ast = <<Leaf("Comment", <<"I", " ", "H", "A", "Z", " ", "n", "o", "t", "e">>)>>))
    /\ []((chars = Document(<<<<"#", "O", "B", "T", "W", " ", "M", "a", "e", "k", ",", " ", "i", "t", "'", "s", "?", "\n", " ", "#", " ", " ", "t", "l", "d", "r">>>>) /\ Done)
              => (result = ResOk /\ ast = <<Leaf("Comment", <<"M", "a", "e", "k", ",", " ", "i", "t", "'", "s", "?">>)>>))
    /\ []((chars = Document(<<<<"#", "O", "B", "T", "W", " ", "a", " ", "#", "O", "I", "C", " ", "b", " ", "#", "T", "L", "D", "R">>>>) /\ Done)
              => result = Syntax("TLDR", KwDebug["OIC"]))
    /\ []((chars = SrcHai \o <<"#", "O", "B", "T", "W", " ", "I", " ", "H", "A", "Z", " ", "n", "o", "t", "e", " ">> /\ Done)
              => result = Syntax("#TLDR", EofLexeme))

\* C19 happens: the comment "I HAZ note" has become a Comment node
C19_Witness ==
    /\ chars = Document(<<SrcComment>>)
    /\ result = ResOk
    /\ ast = <<Leaf("Comment", <<"I", " ", "H", "A", "Z", " ", "n", "o", "t", "e">>)>>

\* the rules of the blocks
BlockRules == {"parse_head", "parse_paragraph", "parse_list"}

\* the accumulators the rules in progress have pushed and not yet popped
RECURSIVE OpenScopes(_)
OpenScopes(fs) ==
    IF fs = <<>> THEN 0
    ELSE OpenScopes(SubSeq(fs, 1, Len(fs) - 1))
         + (IF \/ Top(fs).fn \in BlockRules /\ Top(fs).pc # "enter"
               \/ Top(fs).fn = "parse_lolcode" /\ Top(fs).pc \notin {"enter", "hai"}
            THEN 1 ELSE 0)

\* C20: the stack holds one accumulator for parse_lolcode past #HAI and one
\* for each block rule past its keyword; a block rule pushes an empty
\* accumulator when it consumes its keyword and, when it returns, pops its
\* accumulator from a stack that holds the enclosing one too and appends the
\* block's node to that; a node pushed otherwise is appended to the innermost
\* accumulator; when parse_lolcode returns Ok the stack is empty and parser.ast
\* is what the root accumulator held.
C20_ScopeStack ==
    /\ [](Len(stack) = OpenScopes(frames))
    /\ [][(frames # <<>> /\ Top(frames).fn \in BlockRules /\ Top(frames).pc = "enter"
           /\ result' = ResNone)
              => stack' = Append(stack, <<>>)]_vars
    /\ [][(frames # <<>> /\ Top(frames).fn \in BlockRules /\ Len(frames') < Len(frames))
              => /\ Len(stack) >= 2
                 /\ Len(stack') = Len(stack) - 1
                 /\ SubSeq(stack', 1, Len(stack') - 1) = SubSeq(stack, 1, Len(stack') - 1)
                 /\ \E n \in {Top(Top(stack'))} :
                        /\ Top(stack') = Append(stack[Len(stack) - 1], n)
                        /\ n.kids = Top(stack)]_vars
    /\ [][(Len(stack') = Len(stack) /\ stack' # stack)
              => \E n \in {Top(Top(stack'))} :
                     stack' = [stack EXCEPT ![Len(stack)] = Append(@, n)]]_vars
    /\ [][result' = ResOk => (Len(stack) = 1 /\ stack' = <<>> /\ ast' = stack[1])]_vars

\* C20 happens: a parse has returned Ok with a Paragraph of two children
C20_Witness ==
    /\ result = ResOk
    /\ stack = <<>>
    /\ Len(ast) = 1
    /\ ast[1].kind = "Paragraph"
    /\ Len(ast[1].kids) = 2

\* C21: main runs the stages in the order parse, semantic check, HTML
\* generation, file write: the checked AST exists only after parse_lolcode
\* returned Ok, the page only after the check and the file only after the
\* page; when parse_lolcode or Analyzer::check returns Err, main returns that
\* error, and no page is generated and no file written.
C21_PipelineAbort ==
    /\ [](checked_ast # Nothing => (result = ResOk /\ checked_ast = Some(ast)))
    /\ [](html # Nothing => (checked_ast # Nothing /\ html = Some(Generate(checked_ast.val))))
    /\ [](out_file # Nothing => (html # Nothing /\ out_file = html))
    /\ [](exit = ResOk => out_file # Nothing)
    /\ [](result.tag = "Err"
              => /\ checked_ast = Nothing /\ html = Nothing /\ out_file = Nothing
                 /\ exit \in {Nothing, result})
    /\ [][result.tag = "Err" => (exit' = result /\ UNCHANGED <<checked_ast, html, out_file>>)]_vars
    /\ [][html' # html => (checked_ast' = checked_ast /\ out_file' = out_file)]_vars
    /\ [][out_file' # out_file => (checked_ast' = checked_ast /\ html' = html)]_vars
    /\ [][exit'.tag = "Err" => exit' \in {result, Check(ast)}]_vars

\* C21 happens: main has returned the error of parse_lolcode and written nothing
C21_Witness ==
    /\ main_pc = "returned"
    /\ result.tag = "Err"
    /\ exit = result
    /\ html = Nothing
    /\ out_file = Nothing

\* the last call of next_token returned the token that ends the characters s
JustRead(s) ==
    look.type # "Eof" /\ pos >= Len(s) /\ SubSeq(chars, pos - Len(s) + 1, pos) = s

\* C22: a call of next_token that returns Hash leaves after_hash true and
\* prev_kw none; one that returns Text leaves after_hash and prev_kw as they
\* were; after_hash goes from true to false only in a call that starts at a
\* word character.  So a keyword spelling that comes after a # and characters
\* that are neither word characters nor # is a Kw token, and so is HEAD after
\* MAEK and whitespace.
C22_ContextFlags ==
    /\ [][look'.type = "Hash" => (after_hash' /\ prev_kw' = NoKw)]_vars
    /\ [][look'.type = "Text" => (after_hash' = after_hash /\ prev_kw' = prev_kw)]_vars
    /\ [][(after_hash /\ ~after_hash') => chars[pos + 1] \in WordChars]_vars
    /\ [](\A i \in 1..(pos - LookLen) :
              (/\ look.type \in {"Word", "Kw"}
               /\ chars[i] = "#"
               /\ \A j \in (i + 1)..(pos - LookLen) : chars[j] \notin WordChars \cup {"#"}
               /\ \E k \in Kw : KwSpelling[k] = ToAsciiUppercase(SubSeq(chars, pos - LookLen + 1, pos)))
                  => look.type = "Kw")
    /\ [](JustRead(<<"#", " ", "H", "A", "I">>) => look = TokKw("Hai"))
    /\ [](JustRead(<<"#", "M", "A", "E", "K", " ", " ", "H", "E", "A", "D">>) => (look = TokKw("Head") /\ prev_kw = "Head"))
    /\ [](JustRead(<<"#", ",", " ", "m", "a", "e", "k", " ", ".", " ", "h", "e", "a", "d">>) => look = TokKw("Head"))

\* C22 happens: HEAD has become a keyword after # , MAEK and more punctuation
C22_Witness ==
    /\ JustRead(<<"#", ",", " ", "m", "a", "e", "k", " ", ".", " ", "h", "e", "a", "d">>)
    /\ look = TokKw("Head")
    /\ ~after_hash
    /\ frames = <<>>

\* parse_paragraph is at the token after a # (pc "hash") or after #GIMMEH
\* (pc "gimmeh"), whitespace skipped
InParagraphAt(pc) ==
    /\ result = ResNone
    /\ frames # <<>>
    /\ Top(frames).fn = "parse_paragraph"
    /\ Top(frames).pc = pc
    /\ ~IsWs(look)

\* C23: in a PARAGRAF block free text, #OBTW comments, #GIMMEH BOLD, ITALICS,
\* NEWLINE, SOUNDZ and VIDZ, #LEMME and #I are accepted, and #OIC closes the
\* block; any other token after # or after #GIMMEH, MAEK, ITEM and TITLE
\* included, makes parse_lolcode return a Syntax error; the children of the
\* Paragraph node are the accepted items in source order.
C23_ParagraphItems ==
    /\ [][(InParagraphAt("hash")
           /\ ~(look.type = "Kw" /\ look.kw \in {"Gimmeh", "Lemme", "I", "OBTW", "OIC"}))
              => result' = Syntax("GIMMEH/LEMME/I/OBTW/OIC", AsLexeme(look))]_vars
    /\ [][(InParagraphAt("gimmeh")
           /\ ~(look.type = "Kw" /\ look.kw \in {"Bold", "Italics", "Newline", "Soundz", "Vidz"}))
              => result' = Syntax("BOLD/ITALICS/NEWLINE/SOUNDZ/VIDZ", AsLexeme(look))]_vars
    /\ []((chars = Document(<<<<"#", "M", "A", "E", "K", " ", "P", "A", "R", "A", "G", "R", "A", "F", "#", "M", "A", "E", "K", " ", "L", "I", "S", "T", "#", "O", "I", "C", "#", "O", "I", "C">>>>) /\ Done)
              => result = Syntax("GIMMEH/LEMME/I/OBTW/OIC", KwDebug["Maek"]))
    /\ []((chars = Document(<<<<"#", "M", "A", "E", "K", " ", "P", "A", "R", "A", "G", "R", "A", "F", "#", "G", "I", "M", "M", "E", "H", " ", "I", "T", "E", "M", " ", "x", "#", "M", "K", "A", "Y", "#", "O", "I", "C">>>>) /\ Done)
              => result = Syntax("BOLD/ITALICS/NEWLINE/SOUNDZ/VIDZ", KwDebug["Item"]))
    /\ []((chars = Document(<<<<"#", "M", "A", "E", "K", " ", "P", "A", "R", "A", "G", "R", "A", "F", "#", "G", "I", "M", "M", "E", "H", " ", "I", "T", "A", "L", "I", "C", "S", " ", "i", "#", "M", "K", "A", "Y", "#", "G", "I", "M", "M", "E", "H", " ", "N", "E", "W", "L", "I", "N", "E", "#", "G", "I", "M", "M", "E", "H", " ", "S", "O", "U", "N", "D", "Z", " ", "a", ".", "b", "/", "c", "#", "M", "K", "A", "Y", "#", "G", "I", "M", "M", "E", "H", " ", "V", "I", "D", "Z", " ", "v", "#", "M", "K", "A", "Y", "#", "O", "I", "C">>>>) /\ Done)
              => /\ result = ResOk
                 /\ ast = <<Branch("Paragraph", <<ItalicsNode(<<"i">>), NewlineNode,
                                                  AudioNode(<<"a", ".", "b", "/", "c">>), VideoNode(<<"v">>)>>)>>)
    /\ []((chars = Document(<<SrcMaekParagraf \o SrcComment \o SrcOic>>) /\ Done)
              => /\ result = ResOk
                 /\ ast = <<Branch("Paragraph", <<Leaf("Comment", <<"I", " ", "H", "A", "Z", " ", "n", "o", "t", "e">>)>>)>>)
    /\ []((chars = Document(<<SrcMaekParagraf \o <<" ">> \o SrcVarUse \o SrcOic>>) /\ Done)
              => /\ result = ResOk
                 /\ ast = <<Branch("Paragraph", <<VarUseNode(<<"x">>)>>)>>)
    /\ []((chars = Document(<<SrcMaekParagraf \o <<" ">> \o SrcVarDef \o SrcOic>>) /\ Done)
              => /\ result = ResOk
                 /\ ast = <<Branch("Paragraph", <<VarDefNode(<<"x">>, <<"v">>)>>)>>)

\* parse_lolcode is at the token after a # (pc "hash") or after #MAEK
\* (pc "maek"), whitespace skipped
AtTopLevelAt(pc) ==
    /\ result = ResNone
    /\ Len(frames) = 1
    /\ Top(frames).fn = "parse_lolcode"
    /\ Top(frames).pc = pc
    /\ ~IsWs(look)

\* the keywords that may follow # at top level
TopLevelKw == {"Kthxbye", "OBTW", "Maek", "Gimmeh", "Lemme", "I"}

\* C24: at top level, after # and whitespace, a lookahead that is one of
\* KTHXBYE, OBTW, MAEK, GIMMEH, LEMME, I is taken; HEAD is the hint case; any
\* other token makes parse_lolcode return Syntax{expected: "valid top-level
\* annotation", found: its lexeme}; after #MAEK a token that is not HEAD,
\* PARAGRAF or LIST makes it return Syntax{expected: "HEAD/PARAGRAF/LIST",
\* found: its lexeme}.
C24_TopLevelAnnotation ==
    /\ [][(AtTopLevelAt("hash") /\ ~(look.type = "Kw" /\ look.kw \in TopLevelKw \cup {"Head"}))
              => result' = Syntax("valid top-level annotation", AsLexeme(look))]_vars
    /\ [][(AtTopLevelAt("hash") /\ look.type = "Kw" /\ look.kw \in TopLevelKw)
              => (result'.tag # "Err" /\ frames' # frames)]_vars
    /\ [][(AtTopLevelAt("maek") /\ ~(look.type = "Kw" /\ look.kw \in {"Head", "Paragraf", "List"}))
              => result' = Syntax("HEAD/PARAGRAF/LIST", AsLexeme(look))]_vars
    /\ [][(AtTopLevelAt("maek") /\ look.type = "Kw" /\ look.kw \in {"Head", "Paragraf", "List"})
              => (result' = ResNone /\ Len(frames') = 2)]_vars
    /\ []((chars = Document(<<<<"#", "x">>>>) /\ Done)
              => result = Syntax("valid top-level annotation", <<"x">>))
    /\ []((chars = Document(<<<<"#", "#">>>>) /\ Done)
              => result = Syntax("valid top-level annotation", <<"#">>))
    /\ []((chars = Document(<<<<"#", "O", "I", "C">>>>) /\ Done)
              => result = Syntax("valid top-level annotation", KwDebug["OIC"]))
    /\ []((chars = Document(<<<<"#", " ", "m", "k", "a", "y", " ", "x">>>>) /\ Done)
              => result = Syntax("valid top-level annotation", KwDebug["Mkay"]))
    /\ []((chars = Document(<<<<"#", "M", "A", "E", "K", " ", "B", "O", "L", "D">>>>) /\ Done)
              => result = Syntax("HEAD/PARAGRAF/LIST", KwDebug["Bold"]))

\* C24 happens: #OIC at top level has been refused
C24_Witness ==
    /\ chars = Document(<<<<"#", "O", "I", "C">>>>)
    /\ pos = 8
    /\ look = TokKw("OIC")
    /\ result = Syntax("valid top-level annotation", KwDebug["OIC"])

\* C25: parse_newline, called at top level or in a PARAGRAF block with the
\* NEWLINE keyword as lookahead, consumes that one token, appends one Newline
\* node to the innermost scope and returns to the loop of the enclosing rule,
\* which takes the next token as the start of its next item: no #MKAY is
\* asked for.
C25_Newline ==
    /\ [][(result = ResNone /\ frames # <<>> /\ Top(frames).fn = "parse_newline")
              => /\ IsKw(look, "Newline")
                 /\ result' = ResNone
                 /\ frames' = SubSeq(frames, 1, Len(frames) - 1)
                 /\ Top(frames').fn \in {"parse_lolcode", "parse_paragraph"}
                 /\ Top(frames').pc = "loop"
                 /\ stack' = [stack EXCEPT ![Len(stack)] = Append(@, NewlineNode)]
                 /\ look' = NextToken(Cur).tok
                 /\ pos' = NextToken(Cur).m.pos]_vars
    /\ []((chars = Document(<<<<"#", "G", "I", "M", "M", "E", "H", " ", "N", "E", "W", "L", "I", "N", "E", " ", "i", "t">>>>) /\ Done)
              => (result = ResOk /\ ast = <<NewlineNode, Leaf("Text", <<"i", "t">>)>>))
    /\ []((chars = Document(<<<<"#", "M", "A", "E", "K", " ", "P", "A", "R", "A", "G", "R", "A", "F", "#", "G", "I", "M", "M", "E", "H", " ", "I", "T", "A", "L", "I", "C", "S", " ", "i", "#", "M", "K", "A", "Y", "#", "G", "I", "M", "M", "E", "H", " ", "N", "E", "W", "L", "I", "N", "E", "#", "G", "I", "M", "M", "E", "H", " ", "S", "O", "U", "N", "D", "Z", " ", "a", ".", "b", "/", "c", "#", "M", "K", "A", "Y", "#", "G", "I", "M", "M", "E", "H", " ", "V", "I", "D", "Z", " ", "v", "#", "M", "K", "A", "Y", "#", "O", "I", "C">>>>) /\ Done)
              => /\ result = ResOk
                 /\ Len(ast) = 1
                 /\ ast[1].kind = "Paragraph"
                 /\ Len(ast[1].kids) = 4
                 /\ ast[1].kids[2] = NewlineNode
                 /\ ast[1].kids[3].kind = "Audio")

\* C25 happens: #GIMMEH NEWLINE at top level, the text after it parsed as text
C25_Witness ==
    /\ chars = Document(<<<<"#", "G", "I", "M", "M", "E", "H", " ", "N", "E", "W", "L", "I", "N", "E", " ", "i", "t">>>>)
    /\ result = ResOk
    /\ ast = <<NewlineNode, Leaf("Text", <<"i", "t">>)>>

\* the kinds of the block nodes
BlockKinds == {"Head", "Paragraph", "List"}

\* some node of ns, or a node under one, is a block node
RECURSIVE HoldsBlock(_)
HoldsBlock(ns) ==
    \E i \in DOMAIN ns : ns[i].kind \in BlockKinds \/ HoldsBlock(ns[i].kids)

\* the block rules in progress
OpenBlocks == {i \in DOMAIN frames : frames[i].fn \in BlockRules}

\* C26: the scope stack never holds more than two accumulators, the root's
\* and that of one open HEAD, PARAGRAF or LIST block; a block rule is called
\* by parse_lolcode only, so never while another block is open; no
\* accumulator above the root's holds a block node, and in a returned AST no
\* Head, Paragraph or List has a Head, Paragraph or List under it.
C26_NestingDepth ==
    /\ [](Len(stack) <= 2)
    /\ [](Cardinality(OpenBlocks) <= 1)
    /\ [][(Len(frames') > Len(frames) /\ Top(frames').fn \in BlockRules)
              => (Top(frames).fn = "parse_lolcode" /\ OpenBlocks = {} /\ Len(stack) = 1)]_vars
    /\ [](Len(stack) = 2 => ~HoldsBlock(stack[2]))
    /\ [](result = ResOk => \A i \in DOMAIN ast : ~HoldsBlock(ast[i].kids))

\* C26 happens: a parse has returned a Head and a Paragraph side by side, each
\* with children
C26_Witness ==
    /\ result = ResOk
    /\ Len(ast) = 2
    /\ ast[1].kind = "Head"
    /\ ast[2].kind = "Paragraph"
    /\ ast[1].kids # <<>>
    /\ ast[2].kids # <<>>

LexerFields(m) == <<m.pos, m.line, m.col, m.after_hash, m.prev_kw>>

\* the lexer back at the start of the input
Rewound == [Cur EXCEPT !.pos = 0, !.line = 1, !.col = 0, !.after_hash = FALSE, !.prev_kw = NoKw]

\* next_token called again and again from m until the cursor is at target or
\* beyond: the lexer then, and the last token
RECURSIVE LexUntil(_, _)
LexUntil(m, target) ==
    LET r == NextToken(m)
    IN  IF r.m.pos >= target THEN r ELSE LexUntil(r.m, target)

\* C28: in every state of the parser the lookahead is the last token that
\* next_token returned and the cursor is at its end: lexing the input from its
\* start, call after call, arrives at the cursor with the lexer's fields and
\* the lookahead as they are (or, at the end of input, one call later with
\* Eof); a step of the parser leaves the lexer and the lookahead alone or
\* makes one call of next_token and keeps its token; a call before the end of
\* input moves the cursor forward.
C28_SingleLookahead ==
    /\ [](LET r == LexUntil(Rewound, pos)
          IN  /\ LexerFields(r.m) = LexerFields(Cur)
              /\ look = r.tok \/ (look = TokEof /\ pos = Len(chars)))
    /\ [](CASE look.type = "Eof" -> pos = Len(chars)
            [] look.type = "Hash" -> pos >= 1 /\ chars[pos] = "#"
            [] look.type = "Kw" ->
                   /\ pos >= LookLen
                   /\ ToAsciiUppercase(SubSeq(chars, pos - LookLen + 1, pos)) = KwSpelling[look.kw]
            [] OTHER ->
                   /\ LookLen >= 1
                   /\ pos >= LookLen
                   /\ SubSeq(chars, pos - LookLen + 1, pos) = look.text)
    /\ [][\/ UNCHANGED <<pos, line, col, after_hash, prev_kw, look>>
          \/ /\ LexerFields(Cur)' = LexerFields(NextToken(Cur).m)
             /\ look' = NextToken(Cur).tok
             /\ pos < Len(chars) => pos' > pos]_vars

\* C28 happens: a parse of two items has returned with the whole input read
C28_Witness ==
    /\ result = ResOk
    /\ Len(ast) = 2
    /\ look = TokEof
    /\ pos = Len(chars)
    /\ LexUntil(Rewound, pos).tok = TokKw("Kthxbye")

====
